---------------------------- MODULE Spec2Model ----------------------------
(***************************************************************************)
(* Model of the rag_system repository: the retrieval pipeline              *)
(* (app/rag_engine.py, app/embedding_model.py, app/llm_wrapper.py) and the *)
(* StockAgent decision parser and mock order placement                     *)
(* (agent/stock_agent.py).                                                 *)
(*                                                                         *)
(* Text.  A Python str is modelled as a sequence of atoms.  An atom is     *)
(* either one of the characters the code inspects ( { } ' " : , and the    *)
(* space), or a word: a non-empty run of characters none of which is one   *)
(* of those, written as a TLA+ string ("buy", "AAPL", "10").  Words made   *)
(* of digits are JSON numbers; the other words are letters that spell no   *)
(* JSON literal.  str.find, str.rfind, slicing, str.replace and the JSON   *)
(* scanner act on atoms exactly as they act on the characters.  Texts the  *)
(* code only passes on (questions, chunks, the prompt's fixed parts) are   *)
(* written with longer atoms.                                              *)
(***************************************************************************)
EXTENDS Integers, Sequences, FiniteSets, TLC

LB == "{"
RB == "}"
SQ == "'"
DQ == "\""
COLON == ":"
COMMA == ","
SP == " "

\* Words that are digits only (json scanner NUMBER_RE) and plain letter words.
DigitWords == {"1", "10"}

-----------------------------------------------------------------------------
(* Python str primitives used by get_decision.                              *)

RECURSIVE FindFrom(_, _, _)
FindFrom(s, c, i) ==
  IF i > Len(s) THEN -1
  ELSE IF s[i] = c THEN i - 1
  ELSE FindFrom(s, c, i + 1)

\* str.find(c): 0-based index of the first occurrence, -1 when absent.
find(s, c) == FindFrom(s, c, 1)

RECURSIVE RFindFrom(_, _, _)
RFindFrom(s, c, i) ==
  IF i < 1 THEN -1
  ELSE IF s[i] = c THEN i - 1
  ELSE RFindFrom(s, c, i - 1)

\* str.rfind(c): 0-based index of the last occurrence, -1 when absent.
rfind(s, c) == RFindFrom(s, c, Len(s))

\* s[start:end] for end >= 0 and start >= -1 (a negative start counts from
\* the end and is clamped at 0).
Slice(s, start, end) ==
  LET lo == IF start < 0 THEN (IF Len(s) + start < 0 THEN 0 ELSE Len(s) + start)
            ELSE start
      hi == IF end > Len(s) THEN Len(s) ELSE end
  IN IF lo >= hi THEN << >> ELSE SubSeq(s, lo + 1, hi)

\* str.replace(old, new) for single characters.
Replace(s, old, new) == [i \in 1..Len(s) |-> IF s[i] = old THEN new ELSE s[i]]

-----------------------------------------------------------------------------
(* json.loads, as the standard decoder scans an object, a string or a       *)
(* number.  A JSON value is a tagged tuple: <<"str", text>>, <<"num",       *)
(* digits>>, <<"obj", pairs>> with pairs a sequence of <<key, value>> in    *)
(* insertion order (a Python dict).  A scan returns                         *)
(* [ok, val, end, err]: end is the 1-based position after the value.        *)

Ok(v, e) == [ok |-> TRUE, val |-> v, end |-> e, err |-> ""]
Fail(msg) == [ok |-> FALSE, val |-> <<"none">>, end |-> 0, err |-> msg]

Str(text) == <<"str", text>>
Num(digits) == <<"num", digits>>
Obj(pairs) == <<"obj", pairs>>
None == <<"none">>

RECURSIVE SkipWs(_, _)
SkipWs(s, i) == IF i <= Len(s) /\ s[i] = SP THEN SkipWs(s, i + 1) ELSE i

\* dict[key] = value: a repeated key keeps its place and takes the new value.
RECURSIVE DictPut(_, _, _)
DictPut(pairs, k, v) ==
  IF pairs = << >> THEN << <<k, v>> >>
  ELSE IF Head(pairs)[1] = k THEN << <<k, v>> >> \o Tail(pairs)
  ELSE << Head(pairs) >> \o DictPut(Tail(pairs), k, v)

\* scanstring: i is the position after the opening quote.
ScanString(s, i) ==
  LET j == FindFrom(s, DQ, i)
  IN IF j = -1 THEN Fail("Unterminated string starting at")
     ELSE Ok(Str(SubSeq(s, i, j)), j + 2)

RECURSIVE NumberEnd(_, _)
NumberEnd(s, i) ==
  IF i <= Len(s) /\ s[i] \in DigitWords THEN NumberEnd(s, i + 1) ELSE i

RECURSIVE ScanOnce(_, _)
RECURSIVE JSONObjectPairs(_, _, _)

\* JSONObject's loop: i is the position after a key's opening quote.
JSONObjectPairs(s, i, pairs) ==
  LET k == ScanString(s, i)
  IN IF ~k.ok THEN k
     ELSE
       LET c == SkipWs(s, k.end)
       IN IF ~(c <= Len(s) /\ s[c] = COLON) THEN Fail("Expecting ':' delimiter")
          ELSE
            LET v == ScanOnce(s, SkipWs(s, c + 1))
            IN IF ~v.ok THEN v
               ELSE
                 LET got == DictPut(pairs, k.val[2], v.val)
                     n == SkipWs(s, v.end)
                 IN IF n <= Len(s) /\ s[n] = RB THEN Ok(Obj(got), n + 1)
                    ELSE IF ~(n <= Len(s) /\ s[n] = COMMA)
                      THEN Fail("Expecting ',' delimiter")
                    ELSE
                      LET q == SkipWs(s, n + 1)
                      IN IF q <= Len(s) /\ s[q] = DQ
                           THEN JSONObjectPairs(s, q + 1, got)
                           ELSE Fail("Expecting property name enclosed in double quotes")

\* JSONObject: i is the position after the opening brace.
JSONObject(s, i) ==
  LET n == SkipWs(s, i)
  IN IF n <= Len(s) /\ s[n] = RB THEN Ok(Obj(<< >>), n + 1)
     ELSE IF n <= Len(s) /\ s[n] = DQ THEN JSONObjectPairs(s, n + 1, << >>)
     ELSE Fail("Expecting property name enclosed in double quotes")

\* scanner.scan_once at position i.
ScanOnce(s, i) ==
  IF i > Len(s) THEN Fail("Expecting value")
  ELSE IF s[i] = DQ THEN ScanString(s, i + 1)
  ELSE IF s[i] = LB THEN JSONObject(s, i + 1)
  ELSE IF s[i] \in DigitWords THEN Ok(Num(SubSeq(s, i, NumberEnd(s, i) - 1)), NumberEnd(s, i))
  ELSE Fail("Expecting value")

\* json.loads(s): one value, surrounded by whitespace only.
JsonLoads(s) ==
  LET r == ScanOnce(s, SkipWs(s, 1))
  IN IF ~r.ok THEN r
     ELSE IF SkipWs(s, r.end) /= Len(s) + 1 THEN Fail("Extra data")
     ELSE r

-----------------------------------------------------------------------------
(* StockAgent (agent/stock_agent.py).  A decision is a JSON value; the      *)
(* dictionary keys are texts, so the key "action" is <<"action">>.          *)

Key(word) == <<word>>
Word(word) == Str(<<word>>)

\* dict.get(key, default) on a sequence of pairs.
RECURSIVE PairsGet(_, _, _)
PairsGet(pairs, k, default) ==
  IF pairs = << >> THEN default
  ELSE IF Head(pairs)[1] = k THEN Head(pairs)[2]
  ELSE PairsGet(Tail(pairs), k, default)

\* key in dict.
HasKey(pairs, k) == \E i \in 1..Len(pairs) : pairs[i][1] = k

IsDict(v) == v[1] = "obj"

\* The except branch's decision; raw is what it keeps as raw_response.
Fallback(rag_response, raw, err) ==
  Obj(<< <<Key("action"), Word("hold")>>,
         <<Key("reason"), Str(<<"Failed to parse decision: ", err>>)>>,
         <<Key("raw_response"), Str(raw)>> >>)

\* Mutant: the object is taken to run to the end of the response.
get_decision_to_end(rag_response) ==
  LET start == find(rag_response, LB)
      end == Len(rag_response)
      json_str == Slice(rag_response, start, end)
      r == JsonLoads(Replace(json_str, SQ, DQ))
  IN IF r.ok THEN r.val ELSE Fallback(rag_response, rag_response, r.err)

\* Mutant: the fallback keeps the extracted substring, not the response.
get_decision_raw_json(rag_response) ==
  LET start == find(rag_response, LB)
      end == rfind(rag_response, RB) + 1
      json_str == Slice(rag_response, start, end)
      r == JsonLoads(Replace(json_str, SQ, DQ))
  IN IF r.ok THEN r.val ELSE Fallback(rag_response, json_str, r.err)

\* Mutant: single quotes are not normalised before parsing.
get_decision_no_replace(rag_response) ==
  LET start == find(rag_response, LB)
      end == rfind(rag_response, RB) + 1
      json_str == Slice(rag_response, start, end)
      r == JsonLoads(json_str)
  IN IF r.ok THEN r.val ELSE Fallback(rag_response, rag_response, r.err)

\* Mutant: a parsed object without an action is given the action hold.
get_decision_default_hold(rag_response) ==
  LET start == find(rag_response, LB)
      end == rfind(rag_response, RB) + 1
      json_str == Slice(rag_response, start, end)
      r == JsonLoads(Replace(json_str, SQ, DQ))
  IN IF r.ok
       THEN (IF IsDict(r.val) /\ ~HasKey(r.val[2], Key("action"))
               THEN Obj(r.val[2] \o << <<Key("action"), Word("hold")>> >>)
               ELSE r.val)
       ELSE Fallback(rag_response, rag_response, r.err)

\* The body of get_decision after query_rag has returned rag_response.
get_decision(rag_response) ==
  LET start == find(rag_response, LB)
      end == rfind(rag_response, RB) + 1
      json_str == Slice(rag_response, start, end)
      r == JsonLoads(Replace(json_str, SQ, DQ))
  IN IF r.ok THEN r.val ELSE Fallback(rag_response, rag_response, r.err)

\* Mutant: symbol or amount is enough for an order.
place_order_either(decision) ==
  LET d == decision[2]
      action == PairsGet(d, Key("action"), None)
  IN IF (action = Word("buy") \/ action = Word("sell"))
        /\ (HasKey(d, Key("symbol")) \/ HasKey(d, Key("amount")))
     THEN [status |-> "success",
           order |-> decision,
           message |-> <<"Order placed: ", action, PairsGet(d, Key("amount"), None),
                         " shares of ", PairsGet(d, Key("symbol"), None)>>]
     ELSE [status |-> "no_action",
           order |-> decision,
           message |-> PairsGet(d, Key("reason"), Word("No valid action taken."))]

\* Mutant: the decision's reason is not carried into the message.
place_order_default_message(decision) ==
  LET d == decision[2]
      action == PairsGet(d, Key("action"), None)
  IN IF (action = Word("buy") \/ action = Word("sell"))
        /\ HasKey(d, Key("symbol")) /\ HasKey(d, Key("amount"))
     THEN [status |-> "success",
           order |-> decision,
           message |-> <<"Order placed: ", action, PairsGet(d, Key("amount"), None),
                         " shares of ", PairsGet(d, Key("symbol"), None)>>]
     ELSE [status |-> "no_action",
           order |-> decision,
           message |-> Word("No valid action taken.")]

\* place_order: the mock order placement.  decision is a dict.
place_order(decision) ==
  LET d == decision[2]
      action == PairsGet(d, Key("action"), None)
  IN IF (action = Word("buy") \/ action = Word("sell"))
        /\ HasKey(d, Key("symbol")) /\ HasKey(d, Key("amount"))
     THEN [status |-> "success",
           order |-> decision,
           message |-> <<"Order placed: ", action, PairsGet(d, Key("amount"), None),
                         " shares of ", PairsGet(d, Key("symbol"), None)>>]
     ELSE [status |-> "no_action",
           order |-> decision,
           message |-> PairsGet(d, Key("reason"), Word("No valid action taken."))]

\* craft_prompt: the question get_decision sends through the pipeline.
craft_prompt(user_query, market) ==
  <<"You are a stock trading agent. Your job is to analyze the following user query and market context, and recommend a trading action in JSON format.\n",
    "User Query: ">> \o user_query \o <<"\n", "Market: ">> \o market \o <<"\n",
    "Respond ONLY with a JSON object like: ",
    LB, SQ, "action", SQ, COLON, SP, SQ, "buy", SQ, "/", SQ, "sell", SQ, "/", SQ, "hold", SQ,
    COMMA, SP, SQ, "symbol", SQ, COLON, SP, SQ, "AAPL", SQ,
    COMMA, SP, SQ, "amount", SQ, COLON, SP, "10",
    COMMA, SP, SQ, "reason", SQ, COLON, SP, SQ, "...", SQ, RB, ".\n",
    "If you don't have enough information, respond with: ",
    LB, SQ, "action", SQ, COLON, SP, SQ, "hold", SQ,
    COMMA, SP, SQ, "reason", SQ, COLON, SP, SQ, "Insufficient", SP, "data", SQ, RB, ".">>

-----------------------------------------------------------------------------
(* Bounds and the inputs drawn from them.                                   *)

\* Answer calls served in one behaviour.
MaxRequests == 2
\* Calls of the StockAgent (get_decision, place_order) in one behaviour.
MaxAgentRequests == 1
\* Chunks persist_embeddings may put in the collection.
MaxDocs == 4
\* Length of the model responses enumerated exhaustively.
MaxLen == 3
\* Length of the brace-free text before and after a wrapped object.
MaxWrap == 1
\* Atoms of a well-formed object replaced or deleted in a model response.
MaxEdits == 1

\* query_embedding's default k.
K == 3

ChunkPool == <<"AAPL closed at $150", "MSFT closed at $410", "TSLA fell 3%",
               "NVDA rose 2%", "AMZN was flat">>

\* len() of the atoms the pipeline measures.
AtomLen(a) ==
  CASE a = "\n\n" -> 2
    [] a = "AAPL closed at $150" -> 19
    [] a = "MSFT closed at $410" -> 19
    [] a = "TSLA fell 3%" -> 12
    [] a = "NVDA rose 2%" -> 12
    [] a = "AMZN was flat" -> 13
    [] OTHER -> 1

RECURSIVE StrLen(_)
StrLen(s) == IF s = << >> THEN 0 ELSE AtomLen(Head(s)) + StrLen(Tail(s))

Questions == { <<"How is AAPL doing?">>, << >> }
UserQueries == { <<"Should I buy AAPL today?">> }
Markets == { <<"NASDAQ">> }

\* Texts the language model returns to the chat and debug routes.
Answers == { <<"AAPL", SP, "closed", SP, "at", SP, "$150">>, << >> }

Alphabet == {LB, RB, SQ, DQ, COLON, COMMA, SP, "a", "1"}
BraceFree == Alphabet \ {LB, RB}

TextsOver(A, n) == UNION { [1..k -> A] : k \in 0..n }

\* Field(q, "action", Quoted(q, "buy")) is  'action': 'buy'  with quote q.
Quoted(q, word) == <<q, word, q>>
Field(q, name, value) == <<q, name, q, COLON, SP>> \o value
Braced(fields) == <<LB>> \o fields \o <<RB>>
Sep == <<COMMA, SP>>

\* The object of craft_prompt's first example, with the action the model chose.
TradeObject(q, action) ==
  Braced(Field(q, "action", Quoted(q, action)) \o Sep
         \o Field(q, "symbol", Quoted(q, "AAPL")) \o Sep
         \o Field(q, "amount", <<"10">>) \o Sep
         \o Field(q, "reason", Quoted(q, "x")))

\* The object of craft_prompt's second example.
HoldObject(q) ==
  Braced(Field(q, "action", Quoted(q, "hold")) \o Sep
         \o Field(q, "reason", <<q, "Insufficient", SP, "data", q>>))

\* A JSON object whose reason holds an apostrophe: "don't know".
ApostropheObject ==
  Braced(Field(DQ, "action", Quoted(DQ, "hold")) \o Sep
         \o Field(DQ, "reason", <<DQ, "don", SQ, "t", SP, "know", DQ>>))

Objects ==
  { TradeObject(SQ, a) : a \in {"buy", "sell", "hold", "short"} }
  \cup { TradeObject(DQ, "buy"), HoldObject(SQ), HoldObject(DQ), ApostropheObject,
         Braced(Field(SQ, "symbol", Quoted(SQ, "AAPL"))),
         Braced(Field(SQ, "action", Quoted(SQ, "buy")) \o Sep
                \o Field(SQ, "amount", <<"10">>)) }

\* A compact object whose atoms are edited: {'action':'buy','amount':1}
EditBase ==
  <<LB, SQ, "action", SQ, COLON, SQ, "buy", SQ, COMMA, SQ, "amount", SQ, COLON, "1", RB>>

EditOnce(t) ==
  { [t EXCEPT ![p] = c] : p \in 1..Len(t), c \in Alphabet }
  \cup { SubSeq(t, 1, p - 1) \o SubSeq(t, p + 1, Len(t)) : p \in 1..Len(t) }

RECURSIVE Edited(_, _)
Edited(T, n) ==
  IF n = 0 THEN T ELSE Edited(T \cup UNION { EditOnce(t) : t \in T }, n - 1)

\* Every text the language model returns to get_decision in this model.
Responses ==
  TextsOver(Alphabet, MaxLen)
  \cup Edited({EditBase}, MaxEdits)
  \cup { pre \o o \o suf : pre \in TextsOver(BraceFree, MaxWrap),
                           o \in Objects,
                           suf \in TextsOver(BraceFree, MaxWrap) }

\* Decisions handed to place_order directly.
OptField(name, values) == { << >> } \cup { << <<Key(name), v>> >> : v \in values }
Decisions ==
  { Obj(a \o s \o m \o r) :
      a \in OptField("action", {Word("buy"), Word("sell"), Word("hold"),
                                Word("short"), Num(<<"1">>), None}),
      s \in OptField("symbol", {Word("AAPL"), None}),
      m \in OptField("amount", {Num(<<"10">>)}),
      r \in OptField("reason", {Word("x"), Str(<<"Insufficient", SP, "data">>)}) }

-----------------------------------------------------------------------------
(* State.                                                                   *)

VARIABLES
  store,         \* texts held by the chroma collection "docs"
  pc,            \* where the request being served stands
  entry,         \* "chat" (query_rag), "financial" (query_rag_debug), "stock", "order"
  question,      \* query_rag's / query_rag_debug's argument
  q_embed,       \* the vector embedder.encode returned
  results,       \* what query_embedding returned
  context,
  prompt,
  outcome,       \* what the entry point returned or raised
  decision,      \* StockAgent: the decision get_decision returned
  order_result,  \* StockAgent: what place_order returned
  calls,         \* collaborator calls of the request being served, in order
  sent,          \* every <<question, retrieved documents, prompt>> sent to the model
  served,        \* requests completed
  invoked,       \* calls made so far to each collaborator, and answers returned
  market,        \* BrokerAgent.answer's argument
  data_dir,      \* the market's data directory as this call finds it
  scanned,       \* files of the listing the loop has gone through
  best_symbol,
  best_return,
  best_start,
  best_end,
  parked,        \* the locals of a second call, while this one runs
  current_endpoint,  \* BinanceDataDownloaderV2: index of the endpoint in use
  request        \* BinanceDataDownloaderV2._make_request: its locals and outcome

vars == <<store, pc, entry, question, q_embed, results, context, prompt, outcome,
          decision, order_result, calls, sent, served, invoked,
          market, data_dir, scanned, best_symbol, best_return, best_start, best_end,
          parked, current_endpoint, request>>

downloaderVars == <<current_endpoint, request>>

\* BrokerAgent.answer's argument, what it reads and its locals.
brokerVars ==
  <<market, data_dir, scanned, best_symbol, best_return, best_start, best_end>>

\* float('-inf'), and a finite return as a fraction with a positive denominator.
NegInf == [neg_inf |-> TRUE, num |-> 0, den |-> 1]

NoValue == [kind |-> "none"]
Returned(v) == [kind |-> "return", value |-> v]
Raised(e) == [kind |-> "raise", error |-> e]

\* No call of _make_request is under way.
NoRequest ==
  [pc |-> "idle", caller |-> "none", max_retries |-> 0, attempt |-> 0,
   gets |-> 0, response |-> "unbound", no_json |-> FALSE,
   outcome |-> NoValue]

\* The locals of a call that has not started.
Idle ==
  [pc |-> "idle", entry |-> "none", question |-> << >>, q_embed |-> NoValue,
   results |-> NoValue, context |-> << >>, prompt |-> << >>, outcome |-> NoValue,
   calls |-> << >>]

Init ==
  /\ store = {}
  /\ pc = "idle"
  /\ entry = "none"
  /\ question = << >>
  /\ q_embed = NoValue
  /\ results = NoValue
  /\ context = << >>
  /\ prompt = << >>
  /\ outcome = NoValue
  /\ decision = None
  /\ order_result = NoValue
  /\ calls = << >>
  /\ sent = {}
  /\ served = 0
  /\ invoked = [embedder |-> 0, store |-> 0, llm |-> 0, answered |-> 0]
  /\ market = << >>
  /\ data_dir = NoValue
  /\ scanned = 0
  /\ best_symbol = << >>
  /\ best_return = NegInf
  /\ best_start = 0
  /\ best_end = 0
  /\ parked = Idle
  /\ current_endpoint = 0
  /\ request = NoRequest

-----------------------------------------------------------------------------
(* Ingestion (app/embedding_model.py).                                      *)

\* persist_embeddings(chunks): embeds and adds every chunk to the collection.
persist_embeddings ==
  /\ pc = "idle"
  /\ store = {}
  /\ \E n \in 1..MaxDocs : store' = { <<ChunkPool[i]>> : i \in 1..n }
  /\ UNCHANGED <<pc, entry, question, q_embed, results, context, prompt, outcome,
                 decision, order_result, calls, sent, served, invoked,
                 brokerVars, parked, downloaderVars>>

-----------------------------------------------------------------------------
(* Entry points.                                                            *)

\* Mutant: a question asked before is answered from what was retrieved then.
BeginCached(e, q) ==
  /\ pc = "idle"
  /\ served < MaxRequests
  /\ \/ /\ ~(\E t \in sent : t[1] = q)
        /\ pc' = "encode"
        /\ results' = [kind |-> "none"]
        /\ context' = << >>
        /\ prompt' = << >>
     \/ \E t \in sent :
          /\ t[1] = q
          /\ pc' = "generate"
          /\ results' = [kind |-> "results",
                         documents |-> <<t[2]>>,
                         distances |-> << [i \in 1..Len(t[2]) |-> i] >>]
          /\ context' = << >>
          /\ prompt' = t[3]
  /\ entry' = e
  /\ question' = q
  /\ q_embed' = [kind |-> "none"]
  /\ outcome' = [kind |-> "none"]
  /\ decision' = None
  /\ order_result' = [kind |-> "none"]
  /\ calls' = << >>
  /\ UNCHANGED <<store, sent, served, invoked, brokerVars, parked, downloaderVars>>

\* An entry point is called with the question q.
Begin(e, q) ==
  /\ pc = "idle"
  /\ served < MaxRequests
  /\ pc' = "encode"
  /\ entry' = e
  /\ question' = q
  /\ q_embed' = NoValue
  /\ results' = NoValue
  /\ context' = << >>
  /\ prompt' = << >>
  /\ outcome' = NoValue
  /\ decision' = None
  /\ order_result' = NoValue
  /\ calls' = << >>
  /\ UNCHANGED <<store, sent, served, invoked, brokerVars, parked, downloaderVars>>

\* main.chat: answer = query_rag(question)
chat ==
  /\ pc = "idle"
  /\ \E q \in Questions : Begin("chat", q)

\* FinancialRAGAgent.answer: return query_rag_debug(question)
financial_answer ==
  /\ pc = "idle"
  /\ \E q \in Questions : Begin("financial", q)

\* StockAgent.get_decision up to its call of query_rag(prompt)
stock_get_decision ==
  /\ pc = "idle"
  /\ served < MaxAgentRequests
  /\ \E u \in UserQueries, m \in Markets : Begin("stock", craft_prompt(u, m))

Debug == entry = "financial"

-----------------------------------------------------------------------------
(* query_embedding (app/embedding_model.py).                                *)

\* The stored texts, oldest first (persist_embeddings adds them in this order).
Inserted == [i \in 1..Cardinality(store) |-> <<ChunkPool[i]>>]

\* Mutant: the store is asked for one result more than k.
NearestOneMore(k) ==
  LET total == Cardinality(store)
      n == IF total < k + 1 THEN total ELSE k + 1
  IN { [i \in 1..n |-> Inserted[i]], [i \in 1..n |-> Inserted[total + 1 - i]] }

\* The documents chroma returns for one query vector: the n_results nearest
\* stored texts (all of them when fewer are stored), nearest first.  Which
\* texts are nearest depends on the vectors, which are not computed here: the
\* store ranks its texts either oldest first or newest first.
Nearest(k) ==
  LET total == Cardinality(store)
      n == IF total < k THEN total ELSE k
  IN { [i \in 1..n |-> Inserted[i]], [i \in 1..n |-> Inserted[total + 1 - i]] }

\* Mutant: a failed collaborator call is tried again, twice at most.
FailsRetrying(who, arg) ==
  /\ calls' = Append(calls, [who |-> who, arg |-> arg, ok |-> FALSE])
  /\ invoked' = [invoked EXCEPT ![who] = @ + 1]
  /\ pc' = IF Len(calls) < 3 THEN pc ELSE "raised"
  /\ outcome' = IF Len(calls) < 3 THEN outcome ELSE Raised(who)
  /\ UNCHANGED <<store, entry, question, q_embed, results, context, prompt,
                 decision, order_result, sent, served, brokerVars, parked, downloaderVars>>

\* The collaborator who, called with arg, raises: nothing catches it.
Fails(who, arg) ==
  /\ calls' = Append(calls, [who |-> who, arg |-> arg, ok |-> FALSE])
  /\ invoked' = [invoked EXCEPT ![who] = @ + 1]
  /\ pc' = "raised"
  /\ outcome' = Raised(who)
  /\ UNCHANGED <<store, entry, question, q_embed, results, context, prompt,
                 decision, order_result, sent, served, brokerVars, parked, downloaderVars>>

\* Mutant: the similarity search is left out and nothing counts as retrieved.
encode_skipping_search ==
  /\ pc = "encode"
  /\ calls' = Append(calls, [who |-> "embedder", arg |-> question, ok |-> TRUE])
  /\ invoked' = [invoked EXCEPT !.embedder = @ + 1]
  /\ q_embed' = [kind |-> "vector", of |-> question]
  /\ results' = [kind |-> "results", documents |-> << << >> >>, distances |-> << << >> >>]
  /\ pc' = "assemble"
  /\ UNCHANGED <<store, entry, question, context, prompt, outcome,
                 decision, order_result, sent, served, brokerVars, parked, downloaderVars>>

\* q_embed = embedder.encode([question])[0]
encode ==
  /\ pc = "encode"
  /\ \/ /\ calls' = Append(calls, [who |-> "embedder", arg |-> question, ok |-> TRUE])
        /\ invoked' = [invoked EXCEPT !.embedder = @ + 1]
        /\ q_embed' = [kind |-> "vector", of |-> question]
        /\ pc' = "search"
        /\ UNCHANGED <<store, entry, question, results, context, prompt, outcome,
                       decision, order_result, sent, served, brokerVars, parked, downloaderVars>>
     \/ Fails("embedder", question)

\* What can be wrong with a vector the embedding provider returns.
Defects == {"dimension", "non_finite"}

\* q_embed = embedder.encode([question])[0] when the provider returns a
\* malformed vector: query_embedding inspects nothing and goes on to the query.
encode_malformed ==
  /\ pc = "encode"
  /\ calls' = Append(calls, [who |-> "embedder", arg |-> question, ok |-> TRUE])
  /\ invoked' = [invoked EXCEPT !.embedder = @ + 1]
  /\ \E d \in Defects :
       q_embed' = [kind |-> "malformed", of |-> question, defect |-> d]
  /\ pc' = "search"
  /\ UNCHANGED <<store, entry, question, results, context, prompt, outcome,
                 decision, order_result, sent, served, brokerVars, parked, downloaderVars>>

\* results = collection.query(query_embeddings=[q_embed.tolist()], n_results=k)
query ==
  /\ pc = "search"
  /\ \/ /\ calls' = Append(calls, [who |-> "store", arg |-> q_embed, ok |-> TRUE])
        /\ invoked' = [invoked EXCEPT !.store = @ + 1]
        /\ \E docs \in Nearest(K) :
             results' = [kind |-> "results",
                         documents |-> <<docs>>,
                         distances |-> << [i \in 1..Len(docs) |-> i] >>]
        /\ pc' = "assemble"
        /\ UNCHANGED <<store, entry, question, q_embed, context, prompt, outcome,
                       decision, order_result, sent, served, brokerVars, parked, downloaderVars>>
     \/ Fails("store", q_embed)

\* results = collection.query(...) when the store answers with no list of
\* documents at all: an empty one ([]) or, absent being TRUE, none (None).
\* Either is << >> here, the two differing in the error that indexing raises.
query_without_documents ==
  /\ pc = "search"
  /\ calls' = Append(calls, [who |-> "store", arg |-> q_embed, ok |-> TRUE])
  /\ invoked' = [invoked EXCEPT !.store = @ + 1]
  /\ \E none \in BOOLEAN :
       results' = [kind |-> "results", documents |-> << >>, distances |-> << >>,
                   absent |-> none]
  /\ pc' = "assemble"
  /\ UNCHANGED <<store, entry, question, q_embed, context, prompt, outcome,
                 decision, order_result, sent, served, brokerVars, parked, downloaderVars>>

-----------------------------------------------------------------------------
(* query_rag and query_rag_debug (app/rag_engine.py).                       *)

\* Mutant: the separator also follows the last chunk.
RECURSIVE JoinTrailing(_)
JoinTrailing(docs) ==
  IF docs = << >> THEN << >>
  ELSE docs[1] \o <<"\n\n">> \o JoinTrailing(Tail(docs))

\* "\n\n".join(docs)
RECURSIVE Join(_)
Join(docs) ==
  IF docs = << >> THEN << >>
  ELSE IF Len(docs) = 1 THEN docs[1]
  ELSE docs[1] \o <<"\n\n">> \o Join(Tail(docs))

\* Mutant: the prompt carries a per-request marker.
BuildPromptMarked(ctx, q) ==
  <<"Context:\n">> \o ctx \o <<"\n\n", "Question: ">> \o q
    \o <<IF served = 0 THEN "\nAnswer:" ELSE "\nAnswer (retry):">>

\* f"Context:\n{context}\n\nQuestion: {question}\nAnswer:"
BuildPrompt(ctx, q) ==
  <<"Context:\n">> \o ctx \o <<"\n\n", "Question: ">> \o q \o <<"\nAnswer:">>

\* query_rag: results["documents"][0]
\* query_rag_debug: results["documents"][0] if results["documents"] else []
RetrievedDocs(debug, documents) ==
  IF debug THEN (IF documents = << >> THEN << >> ELSE documents[1])
  ELSE documents[1]

Distances(distances) == IF distances = << >> THEN << >> ELSE distances[1]

\* Mutant: an empty retrieval is refused.
assemble_requires_docs ==
  /\ pc = "assemble"
  /\ IF RetrievedDocs(TRUE, results.documents) = << >>
       THEN /\ pc' = "raised"
            /\ outcome' = Raised("NoDocuments")
            /\ UNCHANGED <<context, prompt>>
       ELSE /\ context' = Join(RetrievedDocs(Debug, results.documents))
            /\ prompt' = BuildPrompt(context', question)
            /\ pc' = "generate"
            /\ UNCHANGED outcome
  /\ UNCHANGED <<store, entry, question, q_embed, results, decision, order_result,
                 calls, sent, served, invoked, brokerVars, parked, downloaderVars>>

\* Context building and prompt construction.
assemble ==
  /\ pc = "assemble"
  /\ IF ~Debug /\ results.documents = << >>
       THEN /\ pc' = "raised"
            /\ outcome' = Raised(IF results.absent THEN "TypeError" ELSE "IndexError")
            /\ UNCHANGED <<context, prompt>>
       ELSE /\ context' = Join(RetrievedDocs(Debug, results.documents))
            /\ prompt' = BuildPrompt(context', question)
            /\ pc' = "generate"
            /\ UNCHANGED outcome
  /\ UNCHANGED <<store, entry, question, q_embed, results, decision, order_result,
                 calls, sent, served, invoked, brokerVars, parked, downloaderVars>>

-----------------------------------------------------------------------------
(* generate_answer (app/llm_wrapper.py).                                    *)

\* str.split() sees an atom as blank, or as words that may begin or end with
\* whitespace.
IsBlank(a) == a \in {SP, "\n", "\n\n"}
StartsBlank(a) == a \in {"\nAnswer:"}
EndsBlank(a) ==
  a \in {"Context:\n", "Question: ", "User Query: ", "Market: ", ".\n",
         "Respond ONLY with a JSON object like: ",
         "If you don't have enough information, respond with: ",
         "You are a stock trading agent. Your job is to analyze the following user query and market context, and recommend a trading action in JSON format.\n"}

\* The whitespace-delimited words inside one atom that is not blank.
AtomWords(a) ==
  CASE a = "AAPL closed at $150" -> 4
    [] a = "MSFT closed at $410" -> 4
    [] a = "TSLA fell 3%" -> 3
    [] a = "NVDA rose 2%" -> 3
    [] a = "AMZN was flat" -> 3
    [] a = "How is AAPL doing?" -> 4
    [] a = "Should I buy AAPL today?" -> 5
    [] a = "User Query: " -> 2
    [] a = "Respond ONLY with a JSON object like: " -> 7
    [] a = "If you don't have enough information, respond with: " -> 8
    [] a = "You are a stock trading agent. Your job is to analyze the following user query and market context, and recommend a trading action in JSON format.\n" -> 26
    [] OTHER -> 1

\* The words the atom at position i adds to those before it: its own, less
\* one when its first word continues the last word of the atom before.
WordsAt(s, i) ==
  IF IsBlank(s[i]) THEN 0
  ELSE AtomWords(s[i])
       - (IF i > 1 /\ ~IsBlank(s[i - 1]) /\ ~EndsBlank(s[i - 1]) /\ ~StartsBlank(s[i])
            THEN 1 ELSE 0)

\* Mutant: every atom counts as a token.
TokensPerAtom(s) == Len(s)

\* len(s.split())
Tokens(s) ==
  Cardinality(UNION { { <<i, w>> : w \in 1..WordsAt(s, i) } : i \in 1..Len(s) })

\* generation_time = end_time - start_time, two readings of time.time(): the
\* wall clock may stand still between them or be set back.
ClockSteps == {-1, 0, 1, 3}

RECURSIVE GCD(_, _)
GCD(a, b) == IF b = 0 THEN a ELSE GCD(b, a % b)

\* The quotient n / d for d > 0, as the fraction <<numerator, denominator>> in
\* lowest terms (the code computes the nearest float).
Quotient(n, d) == LET g == GCD(n, d) IN <<n \div g, d \div g>>
Zero == <<0, 1>>

\* Mutant: without a positive generation time the rate is the token count.
tokens_per_second_else_count(output_tokens, generation_time) ==
  IF generation_time > 0 THEN Quotient(output_tokens, generation_time)
  ELSE <<output_tokens, 1>>

\* (output_tokens / generation_time) if generation_time > 0 else 0
tokens_per_second(output_tokens, generation_time) ==
  IF generation_time > 0 THEN Quotient(output_tokens, generation_time) ELSE Zero

\* The dictionary generate_answer returns when it counted input_tokens in the
\* prompt, the model produced output_text and the clock advanced by
\* generation_time.
LlmResponse(input_tokens, output_text, generation_time) ==
  LET output_tokens == Tokens(output_text)
  IN [text |-> output_text,
      generation_time |-> generation_time,
      input_tokens |-> input_tokens,
      output_tokens |-> output_tokens,
      total_tokens |-> input_tokens + output_tokens,
      tokens_per_second |-> tokens_per_second(output_tokens, generation_time)]

-----------------------------------------------------------------------------
(* query_rag and query_rag_debug, from the model call on.                   *)

\* Mutant: the trace counts the chunks asked for and the atoms of the context.
DebugTraceRequested(llm_response) ==
  LET retrieved_docs == RetrievedDocs(TRUE, results.documents)
  IN [question |-> question,
      retrieved_documents |-> retrieved_docs,
      similarity_distances |-> Distances(results.distances),
      context |-> context,
      prompt |-> prompt,
      answer |-> llm_response.text,
      num_docs_retrieved |-> K,
      context_length |-> Len(context),
      timing |-> [generation_time |-> llm_response.generation_time],
      tokens |-> [input_tokens |-> llm_response.input_tokens,
                  output_tokens |-> llm_response.output_tokens,
                  total_tokens |-> llm_response.total_tokens,
                  tokens_per_second |-> llm_response.tokens_per_second]]

\* The record query_rag_debug returns.  Of its timing block only the model's
\* generation_time is kept; the other clock differences, the embedding block
\* and the fixed process_steps are left out.
DebugTrace(llm_response) ==
  LET retrieved_docs == RetrievedDocs(TRUE, results.documents)
  IN [question |-> question,
      retrieved_documents |-> retrieved_docs,
      similarity_distances |-> Distances(results.distances),
      context |-> context,
      prompt |-> prompt,
      answer |-> llm_response.text,
      num_docs_retrieved |-> Len(retrieved_docs),
      context_length |-> StrLen(context),
      timing |-> [generation_time |-> llm_response.generation_time],
      tokens |-> [input_tokens |-> llm_response.input_tokens,
                  output_tokens |-> llm_response.output_tokens,
                  total_tokens |-> llm_response.total_tokens,
                  tokens_per_second |-> llm_response.tokens_per_second]]

\* What the entry point returns: query_rag the text, query_rag_debug the trace.
Answer(llm_response) ==
  IF Debug THEN DebugTrace(llm_response) ELSE llm_response.text

\* The clock differences generate_answer may measure.  The plain form drops
\* the measurement, so one reading stands for all of them there.
Elapsed == IF Debug THEN ClockSteps ELSE {1}

\* Mutant: a failure of the model is answered with an empty text.
GenerateSwallowing(texts) ==
  /\ pc = "generate"
  /\ sent' = sent \cup { <<question, RetrievedDocs(TRUE, results.documents), prompt>> }
  /\ \/ /\ calls' = Append(calls, [who |-> "llm", arg |-> prompt, ok |-> TRUE])
        /\ invoked' = [invoked EXCEPT !.llm = @ + 1, !.answered = @ + 1]
        /\ LET input_tokens == Tokens(prompt)
           IN \E text \in texts, t \in Elapsed :
                outcome' = Returned(Answer(LlmResponse(input_tokens, text, t)))
        /\ pc' = IF entry = "stock" THEN "parse" ELSE "returned"
     \/ /\ calls' = Append(calls, [who |-> "llm", arg |-> prompt, ok |-> FALSE])
        /\ invoked' = [invoked EXCEPT !.llm = @ + 1, !.answered = @ + 1]
        /\ outcome' = Returned(Answer(LlmResponse(Tokens(prompt), << >>, 0)))
        /\ pc' = IF entry = "stock" THEN "parse" ELSE "returned"
  /\ UNCHANGED <<store, entry, question, q_embed, results, context, prompt,
                 decision, order_result, served, brokerVars, parked, downloaderVars>>

\* llm_response = generate_answer(prompt), and the return that follows it.
Generate(texts) ==
  /\ pc = "generate"
  /\ sent' = sent \cup { <<question, RetrievedDocs(TRUE, results.documents), prompt>> }
  /\ \/ /\ calls' = Append(calls, [who |-> "llm", arg |-> prompt, ok |-> TRUE])
        /\ invoked' = [invoked EXCEPT !.llm = @ + 1, !.answered = @ + 1]
        /\ LET input_tokens == Tokens(prompt)
           IN \E text \in texts, t \in Elapsed :
                outcome' = Returned(Answer(LlmResponse(input_tokens, text, t)))
        /\ pc' = IF entry = "stock" THEN "parse" ELSE "returned"
     \/ /\ calls' = Append(calls, [who |-> "llm", arg |-> prompt, ok |-> FALSE])
        /\ invoked' = [invoked EXCEPT !.llm = @ + 1]
        /\ pc' = "raised"
        /\ outcome' = Raised("llm")
  /\ UNCHANGED <<store, entry, question, q_embed, results, context, prompt,
                 decision, order_result, served, brokerVars, parked, downloaderVars>>

generate_answer ==
  /\ entry \in {"chat", "financial"}
  /\ Generate(Answers)

generate_decision_text ==
  /\ entry = "stock"
  /\ Generate(Responses)

-----------------------------------------------------------------------------
(* StockAgent (agent/stock_agent.py).                                       *)

\* get_decision after query_rag returned: the try block and the return.
parse_decision ==
  /\ pc = "parse"
  /\ decision' = get_decision(outcome.value)
  /\ pc' = "decided"
  /\ UNCHANGED <<store, entry, question, q_embed, results, context, prompt, outcome,
                 order_result, calls, sent, served, invoked, brokerVars, parked, downloaderVars>>

\* result = agent.place_order(decision), as the module's example usage does.
place_decided_order ==
  /\ pc = "decided"
  /\ order_result' = place_order(decision)
  /\ pc' = "placed"
  /\ UNCHANGED <<store, entry, question, q_embed, results, context, prompt, outcome,
                 decision, calls, sent, served, invoked, brokerVars, parked, downloaderVars>>

\* place_order called with a decision of the caller's own.
place_given_order ==
  /\ pc = "idle"
  /\ served < MaxAgentRequests
  /\ \E d \in Decisions :
       /\ decision' = d
       /\ order_result' = place_order(d)
  /\ pc' = "placed"
  /\ entry' = "order"
  /\ outcome' = NoValue
  /\ calls' = << >>
  /\ UNCHANGED <<store, question, q_embed, results, context, prompt, sent, served, invoked,
                 brokerVars, parked, downloaderVars>>

-----------------------------------------------------------------------------
(* BrokerAgent.answer (app/financial_agent.py).                             *)
(*                                                                          *)
(* A date is a whole number of days, today being day 0; a close is a whole  *)
(* number.  A file name is a text of two atoms, the symbol and the          *)
(* extension.  The rows of one file carry different dates, so that          *)
(* sort_values has one result.                                              *)

\* timedelta(days=30)
LookbackDays == 30
\* today = datetime.now().date()
Today == 0
one_month_ago == Today - LookbackDays

\* A row of a csv file after read_csv and to_datetime(errors='coerce'): nat
\* says that the date did not parse (NaT), nan that the close is missing.
Row(d, c) == [date |-> d, close |-> c, nat |-> FALSE, nan |-> FALSE]
BadDate(c) == [date |-> 0, close |-> c, nat |-> TRUE, nan |-> FALSE]
NoClose(d) == [date |-> d, close |-> 0, nat |-> FALSE, nan |-> TRUE]

Csv(symbol, rows) == [name |-> <<symbol, ".csv">>, readable |-> TRUE, rows |-> rows]

\* Files of a market's data directory.
FilePool ==
  { Csv("A", << Row(-20, 100), Row(0, 110) >>),
    Csv("B", << Row(-20, 50), Row(0, 48) >>),
    Csv("C", << Row(-30, 200), Row(-10, 220) >>),
    Csv("D", << Row(-40, 1), Row(0, 100) >>),
    Csv("E", << Row(-40, 10), Row(-20, 100), Row(0, 105) >>),
    Csv("F", << Row(0, 120), Row(-10, 100), Row(-20, 80) >>),
    Csv("G", << BadDate(1), Row(-20, 100), NoClose(0), Row(-10, 103) >>),
    Csv("I", << Row(-5, 50), BadDate(500), NoClose(-1) >>),
    [name |-> <<"H", ".csv">>, readable |-> FALSE, rows |-> << >>],
    [name |-> <<"notes", ".txt">>, readable |-> TRUE, rows |-> << >>] }

\* Files a directory may hold besides the downloaders' <symbol>.csv files
\* with positive closes: a file named .csv, whose symbol is the empty text,
\* and a symbol whose closes are 0.
FilePoolAny ==
  FilePool \cup
    { [name |-> <<".csv">>, readable |-> TRUE,
       rows |-> << Row(-20, 100), Row(0, 110) >>],
      Csv("Z", << Row(-20, 0), Row(0, 0) >>) }

\* Files os.listdir may list for one call.
MaxFiles == 2

\* os.listdir(data_dir): the files in an order of the file system's choosing.
Listings ==
  UNION { { l \in [1..n -> FilePool] : \A i, j \in 1..n : i /= j => l[i] /= l[j] }
          : n \in 0..MaxFiles }

\* Listings of any files.
ListingsAny ==
  UNION { { l \in [1..n -> FilePoolAny] : \A i, j \in 1..n : i /= j => l[i] /= l[j] }
          : n \in 0..MaxFiles }

\* Markets a caller may name: one of the table, one that is not, and None.
BrokerMarkets == { <<"NASDAQ">>, <<"FTSE">>, None }

\* market_dirs.get(market, 'SP500_data')
market_dirs(m) ==
  CASE m = <<"S&P 500">> -> "SP500_data"
    [] m = <<"NASDAQ">> -> "NASDAQ_data"
    [] m = <<"S&P 600">> -> "SP600_data"
    [] m = <<"Dow Jones">> -> "DOWJONES_data"
    [] m = <<"NYSE">> -> "NYSE_data"
    [] m = <<"Crypto">> -> "CRYPTO_data"
    [] OTHER -> "SP500_data"

\* fname.endswith('.csv') and fname.replace('.csv', '')
endswith_csv(fname) == fname /= << >> /\ fname[Len(fname)] = ".csv"
symbol_of(fname) == SelectSeq(fname, LAMBDA a : a /= ".csv")

\* Mutant: only rows without a date are dropped.
dropna_date_only(rows) == SelectSeq(rows, LAMBDA r : ~r.nat)

\* df.dropna(subset=['Date', 'Close'])
dropna(rows) == SelectSeq(rows, LAMBDA r : ~r.nat /\ ~r.nan)

\* df.sort_values('Date')
RECURSIVE InsertByDate(_, _)
InsertByDate(r, sorted) ==
  IF sorted = << >> THEN <<r>>
  ELSE IF r.date < Head(sorted).date THEN <<r>> \o sorted
  ELSE <<Head(sorted)>> \o InsertByDate(r, Tail(sorted))

RECURSIVE sort_values(_)
sort_values(rows) ==
  IF rows = << >> THEN << >>
  ELSE InsertByDate(rows[Len(rows)], sort_values(SubSeq(rows, 1, Len(rows) - 1)))

\* Mutant: rows of any age are kept.
RecentAll(df) == df

\* recent = df[df['Date'] >= pd.Timestamp(one_month_ago)]
Recent(df) == SelectSeq(df, LAMBDA r : r.date >= one_month_ago)

\* Mutant: one row in the window is enough.
TooFewNone(recent) == Len(recent) < 1

\* len(recent) < 2
TooFew(recent) == Len(recent) < 2

Abs(n) == IF n < 0 THEN -n ELSE n

\* n / d for d > 0 as a fraction in lowest terms.
Fraction(n, d) ==
  LET g == GCD(Abs(n), d)
  IN [neg_inf |-> FALSE, num |-> n \div g, den |-> d \div g]

\* 0.0 / 0.0 on the closes iloc hands out (numpy numbers) is nan; were they
\* plain Python numbers the division would raise and the except clause would
\* skip the file: either way the locals stay as they were.
NaN == [neg_inf |-> FALSE, num |-> 0, den |-> 0]

\* ret = (end_price - start_price) / start_price * 100, for a start price > 0
\* or both prices 0
ReturnPct(start_price, end_price) ==
  IF start_price = 0 THEN NaN
  ELSE Fraction((end_price - start_price) * 100, start_price)

\* Mutant: a return equal to the best so far replaces it.
GreaterOrEqual(ret, best) ==
  /\ ~ret.neg_inf
  /\ ret.den /= 0
  /\ best.neg_inf \/ ret.num * best.den >= best.num * ret.den

\* ret > best_return: false for nan
Greater(ret, best) ==
  /\ ~ret.neg_inf
  /\ ret.den /= 0
  /\ best.neg_inf \/ ret.num * best.den > best.num * ret.den

\* Mutant: the end price is kept as the start price too.
BestEndForStart(symbol, ret, start_price, end_price) ==
  [symbol |-> symbol, ret |-> ret, start |-> end_price, end |-> end_price]

\* The loop's locals.
Best(symbol, ret, start_price, end_price) ==
  [symbol |-> symbol, ret |-> ret, start |-> start_price, end |-> end_price]

\* One pass of the loop over the file f, the locals being best: what the
\* locals are after it.
ScanFile(best, f) ==
  IF ~endswith_csv(f.name) THEN best
  ELSE IF ~f.readable THEN best
  ELSE
    LET df == sort_values(dropna(f.rows))
        recent == Recent(df)
    IN IF TooFew(recent) THEN best
       ELSE
         LET start_price == recent[1].close
             end_price == recent[Len(recent)].close
             ret == ReturnPct(start_price, end_price)
         IN IF Greater(ret, best.ret)
              THEN Best(symbol_of(f.name), ret, start_price, end_price)
              ELSE best

\* f"{x:.2f}" of a fraction: the hundredths, the nearest whole number of them
\* (the even one of two equally near).
Fmt2(x) ==
  LET q == (x.num * 100) \div x.den
      r == (x.num * 100) % x.den
  IN IF 2 * r > x.den THEN q + 1
     ELSE IF 2 * r = x.den THEN q + (q % 2)
     ELSE q

\* Mutant: the broker embeds the question before it looks at the market data.
BrokerBeginEmbedding(e, q, m, isdir, l) ==
  /\ pc = "idle"
  /\ served < MaxRequests
  /\ isdir \/ l = << >>
  /\ entry' = e
  /\ question' = q
  /\ market' = m
  /\ data_dir' = [subdir |-> market_dirs(m), isdir |-> isdir, listing |-> l]
  /\ pc' = "isdir"
  /\ scanned' = 0
  /\ best_symbol' = << >>
  /\ best_return' = NegInf
  /\ best_start' = 0
  /\ best_end' = 0
  /\ invoked' = [invoked EXCEPT !.embedder = @ + 1]
  /\ UNCHANGED <<store, q_embed, results, context, prompt, outcome,
                 decision, order_result, calls, sent, served, parked, downloaderVars>>

\* BrokerAgent.answer up to the test of the data directory: market is the
\* caller's, the directory and its files are as this call will find them.
\* best_symbol = << >> is None; the empty symbol of a file named .csv is
\* << >> too, and the code's one test of it, if best_symbol, tells the two
\* no more apart.
BrokerBegin(e, q, m, isdir, l) ==
  /\ pc = "idle"
  /\ served < MaxRequests
  /\ isdir \/ l = << >>
  /\ entry' = e
  /\ question' = q
  /\ market' = m
  /\ data_dir' = [subdir |-> market_dirs(m), isdir |-> isdir, listing |-> l]
  /\ pc' = "isdir"
  /\ scanned' = 0
  /\ best_symbol' = << >>
  /\ best_return' = NegInf
  /\ best_start' = 0
  /\ best_end' = 0
  /\ UNCHANGED <<store, q_embed, results, context, prompt, outcome,
                 decision, order_result, calls, sent, served, invoked, parked, downloaderVars>>

\* BrokerAgent().answer(question, market) over a market data directory.
broker_answer ==
  /\ pc = "idle"
  /\ \E m \in BrokerMarkets, isdir \in BOOLEAN, l \in Listings :
       BrokerBegin("broker", << >>, m, isdir, l)

\* BrokerAgent().answer(question, market) over a directory of any files.
broker_answer_any ==
  /\ pc = "idle"
  /\ \E m \in BrokerMarkets, isdir \in BOOLEAN, l \in ListingsAny :
       BrokerBegin("broker", << >>, m, isdir, l)

\* Files of the directory a /chat_debug request finds.
MaxRouteFiles == 1

\* data.get("market", "S&P 500")
RouteMarkets == BrokerMarkets \cup { <<"S&P 500">> }

\* main.chat_debug with agent = "broker", up to the test of the directory.
chat_debug_broker ==
  /\ pc = "idle"
  /\ \E q \in Questions, m \in RouteMarkets, isdir \in BOOLEAN,
        l \in { x \in Listings : Len(x) <= MaxRouteFiles } :
       BrokerBegin("chat_debug", q, m, isdir, l)

\* What the caller of BrokerAgent.answer gets: the record itself, or, from
\* /chat_debug, the debug_info built around it.
BrokerResult(result) ==
  IF entry = "chat_debug"
    THEN [answer |-> result.answer,
          agent |-> result.agent,
          question |-> question,
          retrieved_documents |-> << >>,
          similarity_distances |-> << >>,
          context |-> << >>,
          prompt |-> << >>,
          timing |-> << >>,
          tokens |-> << >>,
          embedding |-> << >>,
          process_steps |-> << <<"BrokerAgent used for this query. Market: ", market>> >>,
          num_docs_retrieved |-> 0,
          context_length |-> 0]
    ELSE result

\* if not os.path.isdir(data_dir): return {'answer': "No data available ..."}
broker_check_dir ==
  /\ pc = "isdir"
  /\ IF data_dir.isdir
       THEN /\ pc' = "scan"
            /\ UNCHANGED outcome
       ELSE /\ pc' = "returned"
            /\ outcome' = Returned(BrokerResult(
                           [answer |-> [kind |-> "no_data", market |-> market],
                            agent |-> "Broker Agent"]))
  /\ UNCHANGED <<store, entry, question, q_embed, results, context, prompt,
                 decision, order_result, calls, sent, served, invoked, brokerVars, parked, downloaderVars>>

\* One pass of  for fname in os.listdir(data_dir).
broker_scan_file ==
  /\ pc = "scan"
  /\ scanned < Len(data_dir.listing)
  /\ LET best == ScanFile(Best(best_symbol, best_return, best_start, best_end),
                          data_dir.listing[scanned + 1])
     IN /\ best_symbol' = best.symbol
        /\ best_return' = best.ret
        /\ best_start' = best.start
        /\ best_end' = best.end
  /\ scanned' = scanned + 1
  /\ UNCHANGED <<store, pc, entry, question, q_embed, results, context, prompt,
                 outcome, decision, order_result, calls, sent, served, invoked,
                 market, data_dir, parked, downloaderVars>>

\* After the loop: the recommendation, or the apology when no symbol was kept.
broker_return ==
  /\ pc = "scan"
  /\ scanned = Len(data_dir.listing)
  /\ pc' = "returned"
  /\ outcome' =
       Returned(BrokerResult(
                  [answer |->
                     IF best_symbol /= << >>
                       THEN [kind |-> "best",
                             market |-> market,
                             symbol |-> best_symbol,
                             return_pct |-> Fmt2(best_return),
                             from |-> best_start * 100,
                             to |-> best_end * 100]
                       ELSE [kind |-> "sorry", market |-> market],
                   agent |-> "Broker Agent"]))
  /\ UNCHANGED <<store, entry, question, q_embed, results, context, prompt,
                 decision, order_result, calls, sent, served, invoked, brokerVars, parked, downloaderVars>>

-----------------------------------------------------------------------------
(* Two calls at once.  The server answers each request in a thread of its   *)
(* own; query_rag, query_rag_debug, query_embedding and generate_answer     *)
(* keep what they compute in local variables, the module-level names        *)
(* (embedder, collection, llm) being bound once at import.  The variables   *)
(* question .. calls are the locals of the call that is running, parked     *)
(* those of the call that waits.                                            *)

\* The locals of the running call.
Running ==
  [pc |-> pc, entry |-> entry, question |-> question, q_embed |-> q_embed,
   results |-> results, context |-> context, prompt |-> prompt,
   outcome |-> outcome, calls |-> calls]

\* Mutant: prompt is a module-level name, which every call assigns and reads.
ResumeSharingPrompt(frame) ==
  /\ pc' = frame.pc
  /\ entry' = frame.entry
  /\ question' = frame.question
  /\ q_embed' = frame.q_embed
  /\ results' = frame.results
  /\ context' = frame.context
  /\ prompt' = prompt
  /\ outcome' = frame.outcome
  /\ calls' = frame.calls

\* The call whose locals are frame goes on where it stopped.
Resume(frame) ==
  /\ pc' = frame.pc
  /\ entry' = frame.entry
  /\ question' = frame.question
  /\ q_embed' = frame.q_embed
  /\ results' = frame.results
  /\ context' = frame.context
  /\ prompt' = frame.prompt
  /\ outcome' = frame.outcome
  /\ calls' = frame.calls

\* The running call is suspended between two of its steps and the other call
\* runs.
switch ==
  /\ pc /= "idle" \/ parked.pc /= "idle"
  /\ parked' = Running
  /\ Resume(parked)
  /\ UNCHANGED <<store, decision, order_result, sent, served, invoked, brokerVars,
                 downloaderVars>>

\* Calls begun so far: those answered, the running one and the waiting one.
CallsBegun ==
  served + (IF pc = "idle" THEN 0 ELSE 1) + (IF parked.pc = "idle" THEN 0 ELSE 1)

\* One of two calls of query_rag, from main.chat.
concurrent_chat ==
  /\ pc = "idle"
  /\ CallsBegun < 2
  /\ \E q \in Questions : Begin("chat", q)

\* One of two calls of query_rag_debug, from FinancialRAGAgent.answer.
concurrent_financial_answer ==
  /\ pc = "idle"
  /\ CallsBegun < 2
  /\ \E q \in Questions : Begin("financial", q)

\* The request is over and its locals are gone: the next one may start.
finish ==
  /\ pc \in {"returned", "raised", "decided", "placed"}
  /\ pc' = "idle"
  /\ served' = served + 1
  /\ entry' = "none"
  /\ question' = << >>
  /\ q_embed' = NoValue
  /\ results' = NoValue
  /\ context' = << >>
  /\ prompt' = << >>
  /\ outcome' = NoValue
  /\ decision' = None
  /\ order_result' = NoValue
  /\ calls' = << >>
  /\ market' = << >>
  /\ data_dir' = NoValue
  /\ scanned' = 0
  /\ best_symbol' = << >>
  /\ best_return' = NegInf
  /\ best_start' = 0
  /\ best_end' = 0
  /\ UNCHANGED <<store, sent, invoked, parked, downloaderVars>>

-----------------------------------------------------------------------------
(* BinanceDataDownloaderV2._make_request (data/download_binance_crypto_v2.py). *)
(*                                                                          *)
(* current_endpoint counts from 0, as in the code.  response is the local   *)
(* name of that spelling: "unbound" until requests.get has returned once in *)
(* this call, then the status of the last response received.                *)

endpoints ==
  <<"https://api.binance.com", "https://api1.binance.com",
    "https://api2.binance.com", "https://api3.binance.com">>

\* Values of max_retries a caller passes, from 0 up.
MaxRetries == 3

\* max_retries=3
DefaultMaxRetries == 3

\* What one requests.get may come to: an exception before any response
\* (connection error, timeout), a response with status 451, one with another
\* error status, one with status 200 and a JSON body, one with status 200 and
\* a body that is no JSON.
Replies == {"connection_error", "timeout", "451", "500", "200", "200_no_json"}

\* Everything outside the downloader.
serverVars ==
  <<store, pc, entry, question, q_embed, results, context, prompt, outcome,
    decision, order_result, calls, sent, served, invoked, brokerVars, parked>>

\* self.current_endpoint = (self.current_endpoint + 1) % len(self.endpoints)
switch_endpoint(e) == (e + 1) % Len(endpoints)

\* _make_request(endpoint, params, max_retries) is called.
BeginRequest(caller, max_retries) ==
  /\ request.pc = "idle"
  /\ request' = [NoRequest EXCEPT !.pc = "loop", !.caller = caller,
                                  !.max_retries = max_retries]
  /\ UNCHANGED <<current_endpoint, serverVars>>

\* A caller such as get_all_trading_pairs, with a max_retries of its choice.
make_request ==
  /\ request.pc = "idle"
  /\ \E n \in 0..MaxRetries : BeginRequest("caller", n)

\* test_connection: data = self._make_request('/api/v3/time')
test_connection ==
  /\ request.pc = "idle"
  /\ BeginRequest("test_connection", DefaultMaxRetries)

\* except requests.exceptions.RequestException, the local response being r:
\* before the last attempt the handler reads response.status_code, which
\* raises UnboundLocalError when no response was ever received in this call.
\* no_json records that the exception came from response.json().
Handler(r, gets, no_json) ==
  LET req == [request EXCEPT !.gets = gets, !.no_json = no_json] IN
  IF request.attempt < request.max_retries - 1
    THEN IF r = "unbound"
           THEN /\ request' = [req EXCEPT !.pc = "raised",
                                           !.outcome = Raised("UnboundLocalError")]
                /\ UNCHANGED current_endpoint
           ELSE /\ request' = [req EXCEPT !.attempt = @ + 1, !.response = r]
                /\ current_endpoint' = IF r = "451" THEN switch_endpoint(current_endpoint)
                                        ELSE current_endpoint
    ELSE /\ request' = [req EXCEPT !.pc = "returned", !.response = r,
                                    !.outcome = Returned("None")]
         /\ UNCHANGED current_endpoint

\* One pass of  for attempt in range(max_retries),  or the return None after
\* the loop.
attempt_request ==
  /\ request.pc = "loop"
  /\ IF request.attempt >= request.max_retries
       THEN /\ request' = [request EXCEPT !.pc = "returned", !.outcome = Returned("None")]
            /\ UNCHANGED current_endpoint
       ELSE \E reply \in Replies :
              LET gets == request.gets + 1
              IN CASE reply \in {"connection_error", "timeout"} ->
                        Handler(request.response, gets, FALSE)
                   [] reply = "451" ->
                        /\ current_endpoint' = switch_endpoint(current_endpoint)
                        /\ request' = [request EXCEPT !.attempt = @ + 1, !.gets = gets,
                                                       !.response = "451"]
                   [] reply = "500" -> Handler("500", gets, FALSE)
                   [] reply = "200" ->
                        /\ request' = [request EXCEPT !.pc = "returned", !.gets = gets,
                                                       !.response = "200",
                                                       !.outcome = Returned("json")]
                        /\ UNCHANGED current_endpoint
                   [] reply = "200_no_json" ->
                        \* response.json() raises: a RequestException in
                        \* requests from 2.27 on, a plain ValueError before.
                        \/ Handler("200", gets, TRUE)
                        \/ /\ request' = [request EXCEPT !.pc = "raised", !.gets = gets,
                                                          !.response = "200", !.no_json = TRUE,
                                                          !.outcome = Raised("ValueError")]
                           /\ UNCHANGED current_endpoint
  /\ UNCHANGED serverVars

\* _make_request has returned or raised; test_connection turns a value into
\* True or False, and the call is over.
finish_request ==
  /\ request.pc \in {"returned", "raised"}
  /\ request' = NoRequest
  /\ UNCHANGED <<current_endpoint, serverVars>>

-----------------------------------------------------------------------------
(* Specifications.                                                          *)

\* The retrieval pipeline behind /chat and /chat_debug.
Next ==
  \/ persist_embeddings
  \/ chat
  \/ financial_answer
  \/ encode
  \/ encode_malformed
  \/ query
  \/ assemble
  \/ generate_answer
  \/ finish

Spec == Init /\ [][Next]_vars

\* The StockAgent, over the pipeline.
NextAgent ==
  \/ stock_get_decision
  \/ encode
  \/ query
  \/ assemble
  \/ generate_decision_text
  \/ parse_decision
  \/ place_decided_order
  \/ place_given_order
  \/ finish

SpecAgent == Init /\ [][NextAgent]_vars

\* The BrokerAgent behind /chat_debug.
NextBroker ==
  \/ broker_answer
  \/ broker_check_dir
  \/ broker_scan_file
  \/ broker_return
  \/ finish

SpecBroker == Init /\ [][NextBroker]_vars

\* The BrokerAgent over directories of any files.
NextBrokerAny ==
  \/ broker_answer_any
  \/ broker_check_dir
  \/ broker_scan_file
  \/ broker_return
  \/ finish

SpecBrokerAny == Init /\ [][NextBrokerAny]_vars

\* Two calls of the pipeline at a time.
NextConcurrent ==
  \/ persist_embeddings
  \/ concurrent_chat
  \/ concurrent_financial_answer
  \/ encode
  \/ query
  \/ assemble
  \/ generate_answer
  \/ switch
  \/ finish

SpecConcurrent == Init /\ [][NextConcurrent]_vars

\* The plain and the debug form side by side, over a vector store that may
\* also answer without a list of documents.
NextForms ==
  \/ persist_embeddings
  \/ concurrent_chat
  \/ concurrent_financial_answer
  \/ encode
  \/ query
  \/ query_without_documents
  \/ assemble
  \/ generate_answer
  \/ switch
  \/ finish

SpecForms == Init /\ [][NextForms]_vars

\* The Binance downloader's requests.
NextDownloader ==
  \/ make_request
  \/ test_connection
  \/ attempt_request
  \/ finish_request

SpecDownloader == Init /\ [][NextDownloader]_vars

\* The server before any document is ingested: /chat and /chat_debug with
\* either agent.
NextApp ==
  \/ chat
  \/ financial_answer
  \/ encode
  \/ query
  \/ assemble
  \/ generate_answer
  \/ chat_debug_broker
  \/ broker_check_dir
  \/ broker_scan_file
  \/ broker_return
  \/ finish

SpecApp == Init /\ [][NextApp]_vars

-----------------------------------------------------------------------------
(* Properties of the StockAgent, checked under SpecAgent.                   *)

\* get_decision has returned its decision for the text query_rag returned.
AgentDecided == entry = "stock" /\ pc \in {"decided", "placed"}

\* The text query_rag returned to get_decision.
RagResponse == outcome.value

ActionOf(d) ==
  LET pairs == d[2]
  IN PairsGet(pairs, Key("action"), None)

AllowedAction(a) ==
  LET action == a
  IN action = Word("buy") \/ action = Word("sell") \/ action = Word("hold")

Positions(t, c) == { i \in 1..Len(t) : t[i] = c }
Lowest(S) == CHOOSE i \in S : \A j \in S : i <= j
Highest(S) == CHOOSE i \in S : \A j \in S : j <= i

\* Some opening brace comes before some closing brace.
HasBracePair(t) ==
  LET opening == Positions(t, LB)
      closing == Positions(t, RB)
  IN \E i \in opening : \E j \in closing : i < j

\* The text from the first opening brace to the last closing brace.
Between(t) == SubSeq(t, Lowest(Positions(t, LB)), Highest(Positions(t, RB)))

\* What the quote-normalised text between the braces parses to.
Parsed(t) ==
  LET b == Between(t)
  IN JsonLoads([i \in 1..Len(b) |-> IF b[i] = SQ THEN DQ ELSE b[i]])

ParsingFails(t) == ~(HasBracePair(t) /\ Parsed(t).ok)

IsFallbackFor(d, t) ==
  /\ IsDict(d)
  /\ Len(d[2]) = 3
  /\ d[2][1] = <<Key("action"), Word("hold")>>
  /\ d[2][2][1] = Key("reason")
  /\ d[2][2][2][1] = "str"
  /\ Len(d[2][2][2][2]) = 2
  /\ d[2][2][2][2][1] = "Failed to parse decision: "
  /\ d[2][2][2][2][2] /= ""
  /\ d[2][3] = <<Key("raw_response"), Str(t)>>

\* C1: get_decision never raises because of what the model answered: once
\* query_rag has returned a text, get_decision returns a dictionary, whatever
\* the text (no brace, one brace, braces in the wrong order, malformed JSON
\* between the braces), and when the parse fails its action is "hold".  A
\* raise of get_decision is a failure of a collaborator, before any text.
C1_DecisionForEveryResponse ==
  /\ AgentDecided =>
       /\ IsDict(decision)
       /\ ParsingFails(RagResponse) => ActionOf(decision) = Word("hold")
  /\ (entry = "stock" /\ pc = "raised") =>
       /\ outcome.kind = "raise"
       /\ \A i \in 1..Len(calls) : calls[i].who = "llm" => ~calls[i].ok

\* C1 witness: malformed JSON between a brace pair fell back to hold.
C1_Witness ==
  /\ AgentDecided
  /\ HasBracePair(RagResponse)
  /\ ParsingFails(RagResponse)
  /\ ActionOf(decision) = Word("hold")

\* C2: for a response with no opening brace before a closing brace, the
\* decision is the fallback: action "hold", raw_response equal to the whole
\* response text, and the reason "Failed to parse decision: <cause>".
C2_FallbackWithoutBracePair ==
  (AgentDecided /\ ~HasBracePair(RagResponse)) => IsFallbackFor(decision, RagResponse)

\* C2 witness: a response that ends with a lone closing brace.
C2_Witness ==
  /\ AgentDecided
  /\ RagResponse = <<"a", RB>>
  /\ PairsGet(decision[2], Key("raw_response"), None) = Str(<<"a", RB>>)
  /\ ActionOf(decision) = Word("hold")

TradeDecision(action) ==
  Obj(<< <<Key("action"), Word(action)>>,
         <<Key("symbol"), Word("AAPL")>>,
         <<Key("amount"), Num(<<"10">>)>>,
         <<Key("reason"), Word("x")>> >>)

HoldDecision ==
  Obj(<< <<Key("action"), Word("hold")>>,
         <<Key("reason"), Str(<<"Insufficient", SP, "data">>)>> >>)

\* C3: when the text from the first opening to the last closing brace is the
\* single-quoted object {'action': a, 'symbol': 'AAPL', 'amount': 10,
\* 'reason': 'x'} (or the single-quoted hold object), whatever brace-free text
\* surrounds it, the decision has exactly that object's fields and values.
C3_SingleQuotedObjectRoundTrip ==
  (AgentDecided /\ HasBracePair(RagResponse)) =>
     LET b == Between(RagResponse)
     IN /\ \A a \in {"buy", "sell", "hold", "short"} :
             b = TradeObject(SQ, a) => decision = TradeDecision(a)
        /\ b = HoldObject(SQ) => decision = HoldDecision

\* C3 witness: the buy object between a word and an apostrophe.
C3_Witness ==
  /\ AgentDecided
  /\ RagResponse = <<"a">> \o TradeObject(SQ, "buy") \o <<SQ>>
  /\ ActionOf(decision) = Word("buy")
  /\ PairsGet(decision[2], Key("symbol"), None) = Word("AAPL")
  /\ PairsGet(decision[2], Key("amount"), None) = Num(<<"10">>)

\* The decision holds the pair <<key, value>> for some value.
Present(d, name) == \E i \in 1..Len(d[2]) : d[2][i][1] = Key(name)
Holds(d, name, v) == \E i \in 1..Len(d[2]) : d[2][i] = <<Key(name), v>>

\* C4: place_order answers "success" exactly when the action is buy or sell
\* and symbol and amount are both present, "no_action" otherwise, and the
\* order field is the decision it was given.
C4_SuccessIffCompleteOrder ==
  pc = "placed" =>
    /\ order_result.status \in {"success", "no_action"}
    /\ order_result.status = "success" <=>
         /\ Holds(decision, "action", Word("buy")) \/ Holds(decision, "action", Word("sell"))
         /\ Present(decision, "symbol")
         /\ Present(decision, "amount")
    /\ order_result.order = decision

\* C4 witness: a sell with a symbol and no amount is not placed.
C4_Witness ==
  /\ pc = "placed"
  /\ Holds(decision, "action", Word("sell"))
  /\ Present(decision, "symbol")
  /\ ~Present(decision, "amount")
  /\ order_result.status = "no_action"

\* C5: a "no_action" result carries the decision's reason as its message when
\* the decision has one, and "No valid action taken." when it has none.
C5_NoActionMessage ==
  (pc = "placed" /\ order_result.status = "no_action") =>
    /\ \A i \in 1..Len(decision[2]) :
         decision[2][i][1] = Key("reason") => order_result.message = decision[2][i][2]
    /\ ~Present(decision, "reason") => order_result.message = Word("No valid action taken.")

\* C5 witness: {action: hold, reason: Insufficient data} parsed from the
\* model's answer gives the message "Insufficient data".
C5_Witness ==
  /\ pc = "placed"
  /\ entry = "stock"
  /\ decision = HoldDecision
  /\ order_result.status = "no_action"
  /\ order_result.message = Str(<<"Insufficient", SP, "data">>)

\* C6 as claimed: every decision get_decision returns has an action in
\* {buy, sell, hold}.
C6_ActionAlwaysAllowed ==
  AgentDecided => (IsDict(decision) /\ AllowedAction(ActionOf(decision)))

\* C6 amended: the parser neither checks nor changes the action: the returned
\* action is in {buy, sell, hold} exactly when the parse failed (hold) or the
\* model's object itself gives such an action.
C6_ActionAsGiven ==
  AgentDecided =>
    LET parsed == Parsed(RagResponse)
    IN AllowedAction(ActionOf(decision)) <=>
         \/ ~(HasBracePair(RagResponse) /\ parsed.ok)
         \/ AllowedAction(ActionOf(parsed.val))

\* C6 witness: the model's object said 'short' and the decision says so too.
C6_Witness ==
  /\ AgentDecided
  /\ ~ParsingFails(RagResponse)
  /\ ActionOf(decision) = Word("short")

-----------------------------------------------------------------------------
(* Properties of the retrieval pipeline, checked under Spec.                *)

\* The chunks the vector store returned for this request.
Retrieved == results.documents[1]

\* assemble has run: context and prompt are those of this request.
ContextBuilt ==
  /\ results.kind = "results"
  /\ \/ pc \in {"generate", "returned"}
     \/ pc = "raised" /\ outcome = Raised("llm")

\* The chunks (one atom each) with a blank line between neighbours.
BlankLineJoined(docs) ==
  IF docs = << >> THEN << >>
  ELSE [i \in 1..(2 * Len(docs) - 1) |->
          IF i % 2 = 1 THEN docs[(i + 1) \div 2][1] ELSE "\n\n"]

\* C7: in the plain and in the debug form the context is the retrieved chunk
\* texts in the order the store returned them, joined by "\n\n", and empty
\* when nothing was retrieved; the debug trace reports that context.
C7_ContextIsJoinedChunks ==
  /\ ContextBuilt => context = BlankLineJoined(Retrieved)
  /\ (Debug /\ pc = "returned") =>
       /\ outcome.value.retrieved_documents = Retrieved
       /\ outcome.value.context = BlankLineJoined(Retrieved)

\* C7 witness: the plain form joined two chunks the store returned in the
\* reverse of their insertion order.
C7_Witness ==
  /\ entry = "chat"
  /\ pc = "returned"
  /\ Retrieved = << <<ChunkPool[2]>>, <<ChunkPool[1]>> >>
  /\ context = <<ChunkPool[2], "\n\n", ChunkPool[1]>>

\* The prompt p is the template filled with the context of docs and question q.
TemplateFilled(p, docs, q) ==
  LET c == BlankLineJoined(docs)
  IN /\ Len(p) = Len(c) + Len(q) + 4
     /\ p[1] = "Context:\n"
     /\ SubSeq(p, 2, 1 + Len(c)) = c
     /\ p[2 + Len(c)] = "\n\n"
     /\ p[3 + Len(c)] = "Question: "
     /\ SubSeq(p, 4 + Len(c), 3 + Len(c) + Len(q)) = q
     /\ p[Len(p)] = "\nAnswer:"

\* C8: every prompt sent to the model is "Context:\n", the context, a blank
\* line, "Question: " and the question, then "\nAnswer:"; two calls with the
\* same question and the same retrieved chunks send the same prompt, and the
\* prompt about to be sent equals any sent before for that question and chunks.
C8_PromptDeterministic ==
  /\ \A t \in sent : TemplateFilled(t[3], t[2], t[1])
  /\ \A t, u \in sent : (t[1] = u[1] /\ t[2] = u[2]) => t[3] = u[3]
  /\ pc = "generate" =>
       \A t \in sent : (t[1] = question /\ t[2] = Retrieved) => t[3] = prompt

\* C8 witness: a second request is about to send the prompt the first sent.
C8_Witness ==
  /\ served >= 1
  /\ pc = "generate"
  /\ question /= << >>
  /\ Retrieved /= << >>
  /\ <<question, Retrieved, prompt>> \in sent

\* C9: an empty retrieval is not a failure: the context is empty, the model
\* is still called with the prompt built from it, and the debug trace has no
\* retrieved document, context "", num_docs_retrieved 0 and context_length 0.
C9_EmptyRetrievalProceeds ==
  /\ pc = "raised" => outcome.error \in {"embedder", "store", "llm"}
  /\ (ContextBuilt /\ Retrieved = << >>) =>
       /\ context = << >>
       /\ prompt = <<"Context:\n", "\n\n", "Question: ">> \o question \o <<"\nAnswer:">>
  /\ (pc = "returned" /\ Retrieved = << >>) =>
       /\ calls[Len(calls)].who = "llm"
       /\ calls[Len(calls)].arg = prompt
       /\ Debug =>
            /\ outcome.value.retrieved_documents = << >>
            /\ outcome.value.context = << >>
            /\ outcome.value.num_docs_retrieved = 0
            /\ outcome.value.context_length = 0

\* C9 witness: the debug form returned a trace for a query on the empty store.
C9_Witness ==
  /\ Debug
  /\ pc = "returned"
  /\ store = {}
  /\ Retrieved = << >>
  /\ outcome.value.num_docs_retrieved = 0
  /\ Len(calls) = 3

\* C10: when the language model fails, the request ends in a raise in both
\* forms; no answer, empty or not, is returned in its place.
C10_GenerationFailureSurfaces ==
  \A i \in 1..Len(calls) :
    (calls[i].who = "llm" /\ ~calls[i].ok) =>
      /\ pc = "raised"
      /\ outcome = Raised("llm")

\* C10 witness: the plain form raised after the model failed on its prompt.
C10_Witness ==
  /\ entry = "chat"
  /\ pc = "raised"
  /\ Len(calls) = 3
  /\ calls[3].who = "llm"
  /\ ~calls[3].ok
  /\ outcome.kind = "raise"

\* C11 as claimed: a failing embedding provider ends the request in a raise,
\* and so does a malformed vector (wrong dimensionality or a non-finite
\* value): no malformed query vector is ever handed to the vector store.
C11_MalformedVectorRejected ==
  /\ \A i \in 1..Len(calls) :
       (calls[i].who = "embedder" /\ ~calls[i].ok) =>
          (pc = "raised" /\ outcome = Raised("embedder"))
  /\ \A i \in 1..Len(calls) :
       calls[i].who = "store" => calls[i].arg.kind = "vector"
  /\ (pc \in {"assemble", "generate", "returned"}) => q_embed.kind = "vector"

\* The calls of this request made to the collaborator who.
CallsTo(who) == { i \in 1..Len(calls) : calls[i].who = who }

\* C12: the pipeline does not retry.  Within one answer call, plain or debug,
\* the embedding provider, the vector store and the language model are each
\* called at most once, in that order; a call that fails is the last call of
\* the request, and the request ends raising that collaborator's failure.
C12_NoRetry ==
  /\ \A who \in {"embedder", "store", "llm"} : Cardinality(CallsTo(who)) <= 1
  /\ \A i \in 1..Len(calls) : calls[i].who = <<"embedder", "store", "llm">>[i]
  /\ \A i \in 1..Len(calls) :
       ~calls[i].ok =>
         /\ i = Len(calls)
         /\ pc = "raised"
         /\ outcome = Raised(calls[i].who)

\* C12 witness: the debug form raised the vector store's failure after one
\* call of the embedding provider and one of the store; the model was not
\* called.
C12_Witness ==
  /\ entry = "financial"
  /\ pc = "raised"
  /\ Len(calls) = 2
  /\ calls[1].who = "embedder" /\ calls[1].ok
  /\ calls[2].who = "store" /\ ~calls[2].ok
  /\ outcome = Raised("store")

\* C13: nothing is memoised.  Every answer call that returns has embedded its
\* own question, queried the store with that vector and called the model with
\* its own prompt, whether or not the question was answered before.  Between
\* calls every call so far has embedded (failed calls included), no
\* collaborator was called more often than the one before it in the pipeline,
\* and when all n calls so far returned an answer each collaborator was
\* called exactly n times; nothing of a finished call is kept.
C13_NoMemoization ==
  /\ pc = "returned" =>
       /\ Len(calls) = 3
       /\ calls[1] = [who |-> "embedder", arg |-> question, ok |-> TRUE]
       /\ calls[2].who = "store" /\ calls[2].ok /\ calls[2].arg.of = question
       /\ calls[3] = [who |-> "llm", arg |-> prompt, ok |-> TRUE]
  /\ pc = "idle" =>
       /\ invoked.embedder = served
       /\ invoked.store <= invoked.embedder
       /\ invoked.llm <= invoked.store
       /\ invoked.answered <= invoked.llm
       /\ invoked.answered = served =>
            (invoked.embedder = served /\ invoked.store = served /\ invoked.llm = served)
       /\ question = << >> /\ context = << >> /\ prompt = << >> /\ calls = << >>
       /\ q_embed = NoValue /\ results = NoValue /\ outcome = NoValue

\* C13 witness: the second of two calls with the same question, which
\* retrieved the same chunks and sent the same prompt as the first, has
\* returned: each collaborator has been called twice.
C13_Witness ==
  /\ served = 1
  /\ pc = "returned"
  /\ question /= << >>
  /\ Cardinality(sent) = 1
  /\ invoked = [embedder |-> 2, store |-> 2, llm |-> 2, answered |-> 2]

\* C14: the retrieval result the pipeline uses never has more chunks than
\* the k it asks the store for (query_embedding's default, the pipeline passes
\* no other) nor more than the store holds; its chunks are distinct stored
\* texts, and the context joins exactly that many chunks.
C14_AtMostKChunks ==
  results.kind = "results" =>
    /\ Len(Retrieved) <= K
    /\ Len(Retrieved) <= Cardinality(store)
    /\ \A i \in 1..Len(Retrieved) : Retrieved[i] \in store
    /\ \A i, j \in 1..Len(Retrieved) : i /= j => Retrieved[i] /= Retrieved[j]
    /\ ContextBuilt =>
         Cardinality({ i \in 1..Len(context) : context[i] /= "\n\n" }) = Len(Retrieved)

\* C14 witness: the store holds more than k chunks and the answer was built
\* from exactly k of them.
C14_Witness ==
  /\ pc = "returned"
  /\ Cardinality(store) = K + 1
  /\ Len(Retrieved) = K
  /\ Len(context) = 2 * K - 1

\* The trace query_rag_debug returned.
Trace == outcome.value
TraceReturned == Debug /\ pc = "returned"

RECURSIVE SumOver(_, _)
SumOver(f, n) == IF n = 0 THEN 0 ELSE f[n] + SumOver(f, n - 1)

\* The characters of the chunks and of the blank lines between them.
JoinedLength(docs) ==
  IF docs = << >> THEN 0
  ELSE SumOver([i \in 1..Len(docs) |-> AtomLen(docs[i][1])], Len(docs))
       + 2 * (Len(docs) - 1)

\* C15: in every debug trace num_docs_retrieved is the number of entries of
\* retrieved_documents and context_length is the length of context in
\* characters (the chunks' lengths and two for each blank line between them);
\* with a store holding the one chunk "AAPL closed at $150" the trace has
\* num_docs_retrieved = 1 and that chunk's text, unchanged, as its context.
C15_TraceCountsMatch ==
  TraceReturned =>
    /\ Trace.num_docs_retrieved = Len(Trace.retrieved_documents)
    /\ Trace.retrieved_documents = Retrieved
    /\ Trace.context = context
    /\ Trace.context_length = JoinedLength(Retrieved)
    /\ store = { <<"AAPL closed at $150">> } =>
         /\ Trace.num_docs_retrieved = 1
         /\ Trace.context = <<"AAPL closed at $150">>
         /\ Trace.context_length = 19

\* C15 witness: the trace for "How is AAPL doing?" over the one-chunk store.
C15_Witness ==
  /\ TraceReturned
  /\ store = { <<"AAPL closed at $150">> }
  /\ Trace.question = <<"How is AAPL doing?">>
  /\ Trace.retrieved_documents = << <<"AAPL closed at $150">> >>
  /\ Trace.num_docs_retrieved = 1
  /\ Trace.context = <<"AAPL closed at $150">>

\* C16: the tokens_per_second of a trace times its generation_time is its
\* output_tokens when the generation_time is positive, and it is 0 when the
\* generation_time is zero or negative: the request returns then as well.
C16_TokensPerSecond ==
  /\ TraceReturned =>
       LET rate == Trace.tokens.tokens_per_second
           elapsed == Trace.timing.generation_time
       IN /\ rate[2] > 0
          /\ elapsed > 0 => rate[1] * elapsed = Trace.tokens.output_tokens * rate[2]
          /\ elapsed <= 0 => rate[1] = 0
  /\ pc = "raised" => outcome.error \in {"embedder", "store", "llm"}

\* C16 witness: four tokens generated in three ticks are 4/3 tokens a tick.
C16_Witness ==
  /\ TraceReturned
  /\ Trace.timing.generation_time = 3
  /\ Trace.tokens.output_tokens = 4
  /\ Trace.tokens.tokens_per_second = <<4, 3>>

\* The starts of the words of a text whose atoms are blanks and single words.
WordStarts(s) ==
  { i \in 1..Len(s) : s[i] /= SP /\ (i = 1 \/ s[i - 1] = SP) }

\* C17: in every trace input_tokens is the number of whitespace-delimited
\* words of the prompt ("Context:", the words of the chunks, "Question:", the
\* words of the question, "Answer:"), output_tokens that of the answer, and
\* total_tokens their sum.
C17_WhitespaceTokenCounts ==
  TraceReturned =>
    LET chunks == [i \in 1..Len(Retrieved) |-> AtomWords(Retrieved[i][1])]
        asked == IF question = << >> THEN 0 ELSE 4
    IN /\ Trace.tokens.input_tokens = 3 + SumOver(chunks, Len(Retrieved)) + asked
       /\ Trace.tokens.output_tokens = Cardinality(WordStarts(Trace.answer))
       /\ Trace.tokens.total_tokens =
            Trace.tokens.input_tokens + Trace.tokens.output_tokens

\* C17 witness: two chunks of four words, a question of four and the three
\* labels make fifteen input tokens; the answer has four.
C17_Witness ==
  /\ TraceReturned
  /\ Cardinality(store) = 2
  /\ question = <<"How is AAPL doing?">>
  /\ Trace.tokens.input_tokens = 15
  /\ Trace.tokens.output_tokens = 4
  /\ Trace.tokens.total_tokens = 19

-----------------------------------------------------------------------------
(* Properties of the BrokerAgent, checked under SpecBroker.                 *)

\* BrokerAgent.answer has gone through every file of the directory.
BrokerEntry == entry \in {"broker", "chat_debug"}

BrokerDone == BrokerEntry /\ pc = "returned" /\ data_dir.isdir

Listing == data_dir.listing

\* The rows of the file f that count: date and close present, date in the
\* lookback window.
InWindow(f) ==
  { i \in 1..Len(f.rows) :
      ~f.rows[i].nat /\ ~f.rows[i].nan /\ f.rows[i].date >= Today - LookbackDays }

\* The file is a readable csv with at least two rows in the window.
Counted(f) ==
  /\ f.name[Len(f.name)] = ".csv"
  /\ f.readable
  /\ Cardinality(InWindow(f)) >= 2

\* The closes of the earliest-dated and of the latest-dated row in the window.
FirstClose(f) ==
  LET W == InWindow(f)
  IN f.rows[CHOOSE i \in W : \A j \in W : f.rows[i].date <= f.rows[j].date].close
LastClose(f) ==
  LET W == InWindow(f)
  IN f.rows[CHOOSE i \in W : \A j \in W : f.rows[j].date <= f.rows[i].date].close

\* The return of f over the window is higher than that of g.
Outperforms(f, g) ==
  (LastClose(f) - FirstClose(f)) * 100 * FirstClose(g)
    > (LastClose(g) - FirstClose(g)) * 100 * FirstClose(f)

WithoutShort(l) ==
  SelectSeq(l, LAMBDA f : ~(f.name[Len(f.name)] = ".csv" /\ f.readable
                             /\ Cardinality(InWindow(f)) < 2))

\* The locals after the loop has gone through the files of l.
RECURSIVE ScanAll(_, _)
ScanAll(best, l) ==
  IF l = << >> THEN best ELSE ScanAll(ScanFile(best, Head(l)), Tail(l))

\* C19: a symbol with fewer than two rows in the window does not affect the
\* result: the recommended symbol, its return and its prices are those the
\* scan gives for the same directory without the files of such symbols.
C19_ShortWindowSkipped ==
  BrokerDone =>
    Best(best_symbol, best_return, best_start, best_end)
      = ScanAll(Best(<< >>, NegInf, 0, 0), WithoutShort(Listing))

\* C19 witness: D rose from 1 to 100 over its history but has one row in the
\* window; B, which lost 4 %, is recommended.
C19_Witness ==
  /\ BrokerDone
  /\ Len(Listing) = 2
  /\ Listing[1].name = <<"D", ".csv">>
  /\ Listing[2].name = <<"B", ".csv">>
  /\ best_symbol = <<"B">>
  /\ best_return = [neg_inf |-> FALSE, num |-> -4, den |-> 1]

\* C20: the return kept for a symbol is (last - first) / first * 100 of the
\* closes of the earliest-dated and the latest-dated row among its rows in
\* the window, which are the prices kept with it; the answer reports them,
\* the return to the nearest hundredth.
C20_ReturnOverWindow ==
  (BrokerEntry /\ pc \in {"scan", "returned"} /\ best_symbol /= << >>) =>
    \E i \in 1..scanned :
      LET f == Listing[i]
      IN /\ <<f.name[1]>> = best_symbol
         /\ Counted(f)
         /\ best_start = FirstClose(f)
         /\ best_end = LastClose(f)
         /\ ~best_return.neg_inf
         /\ best_return.den > 0
         /\ best_return.num * FirstClose(f)
              = (LastClose(f) - FirstClose(f)) * 100 * best_return.den
         /\ pc = "returned" =>
              /\ outcome.value.answer.from = FirstClose(f) * 100
              /\ outcome.value.answer.to = LastClose(f) * 100
              /\ 2 * Abs(outcome.value.answer.return_pct * best_return.den
                          - best_return.num * 100) <= best_return.den

\* C20 witness: A (100 to 110) and B (50 to 48): A with a return of 10.00 %.
C20_Witness ==
  /\ BrokerDone
  /\ Len(Listing) = 2
  /\ Listing[1].name = <<"A", ".csv">>
  /\ Listing[2].name = <<"B", ".csv">>
  /\ best_symbol = <<"A">>
  /\ best_return = [neg_inf |-> FALSE, num |-> 10, den |-> 1]
  /\ outcome.value.answer.return_pct = 1000

\* The file f without its malformed rows.
WellFormed(f) ==
  [f EXCEPT !.rows = SelectSeq(f.rows, LAMBDA r : ~r.nat /\ ~r.nan)]

\* The listing l, every file without its malformed rows.
Cleaned(l) == [i \in 1..Len(l) |-> WellFormed(l[i])]

\* C21: rows with an unparseable date or a missing close are dropped before
\* the window filter and the row count.  The prices kept with the best symbol
\* are closes of well-formed rows of its file; a file with fewer than two
\* well-formed rows in the window is never the best symbol, whatever its
\* malformed rows are; and the result is the one the scan gives for the same
\* files without their malformed rows.
C21_MalformedRowsDropped ==
  BrokerDone =>
    /\ \A i \in 1..Len(Listing) :
         LET f == Listing[i]
             closes == { f.rows[j].close : j \in { n \in 1..Len(f.rows) :
                                                     ~f.rows[n].nat /\ ~f.rows[n].nan } }
         IN best_symbol = <<f.name[1]>> =>
              /\ best_start \in closes
              /\ best_end \in closes
              /\ Cardinality(InWindow(f)) >= 2
    /\ Best(best_symbol, best_return, best_start, best_end)
         = ScanAll(Best(<< >>, NegInf, 0, 0), Cleaned(Listing))

\* C21 witness: I has one well-formed row and two malformed ones and is
\* skipped; G is rated on its two well-formed rows, 100 and 103.
C21_Witness ==
  /\ BrokerDone
  /\ Len(Listing) = 2
  /\ Listing[1].name = <<"I", ".csv">>
  /\ Listing[2].name = <<"G", ".csv">>
  /\ best_symbol = <<"G">>
  /\ best_start = 100
  /\ best_end = 103
  /\ best_return = [neg_inf |-> FALSE, num |-> 3, den |-> 1]

\* C22 as claimed: BrokerAgent.answer never raises; what it returns is a
\* record with an answer and the agent's name; without the market's
\* directory the answer says that no data is available, and with it the
\* answer is the apology exactly when no symbol of the directory has two
\* rows in the window.
C22_ApologyOnlyWithoutData ==
  /\ BrokerEntry => pc /= "raised"
  /\ (BrokerEntry /\ pc = "returned") =>
       /\ outcome.kind = "return"
       /\ outcome.value.agent = "Broker Agent"
       /\ ~data_dir.isdir => outcome.value.answer.kind = "no_data"
       /\ data_dir.isdir =>
            (outcome.value.answer.kind = "sorry"
               <=> \A i \in 1..Len(Listing) : ~Counted(Listing[i]))

-----------------------------------------------------------------------------
(* Properties of the server, checked under SpecApp.                         *)

-----------------------------------------------------------------------------
(* Properties of two calls at once, checked under SpecConcurrent.           *)

\* The documents the call with the locals f retrieved.
DocsOf(f) == RetrievedDocs(f.entry = "financial", f.results.documents)

\* What the call with the locals f has asked of the collaborators and what it
\* holds and returns come from its own question and from the collaborators'
\* answers to its own requests.
OwnWork(f) ==
  LET log == f.calls
      vector == [kind |-> "vector", of |-> f.question]
  IN /\ Len(log) >= 1 => log[1].who = "embedder" /\ log[1].arg = f.question
     /\ f.pc \in {"search", "assemble", "generate", "returned"} => f.q_embed = vector
     /\ Len(log) >= 2 => log[2].who = "store" /\ log[2].arg = vector
     /\ f.pc \in {"generate", "returned"} =>
          /\ f.context = Join(DocsOf(f))
          /\ f.prompt = BuildPrompt(Join(DocsOf(f)), f.question)
     /\ Len(log) >= 3 =>
          /\ log[3].who = "llm"
          /\ log[3].arg = BuildPrompt(Join(DocsOf(f)), f.question)
          /\ <<f.question, DocsOf(f), log[3].arg>> \in sent
     /\ f.pc = "returned" =>
          /\ Len(log) = 3
          /\ f.outcome.kind = "return"
          /\ IF f.entry = "financial"
               THEN /\ f.outcome.value.question = f.question
                    /\ f.outcome.value.retrieved_documents = DocsOf(f)
                    /\ f.outcome.value.context = Join(DocsOf(f))
                    /\ f.outcome.value.prompt = log[3].arg
                    /\ f.outcome.value.answer \in Answers
               ELSE f.outcome.value \in Answers

\* C24: however two calls interleave, each one's question, retrieved
\* documents, context, prompt and answer are those of its own question and of
\* the collaborators' answers to its own requests.
C24_CallsDoNotInterfere ==
  /\ OwnWork(Running)
  /\ OwnWork(parked)

\* C24 witness: a call of query_rag_debug returned its trace for one question
\* while a call for another question, begun before it ended, waits with its
\* prompt built for the model.
C24_Witness ==
  /\ pc = "returned"
  /\ entry = "financial"
  /\ parked.pc = "generate"
  /\ question = <<"How is AAPL doing?">>
  /\ parked.question = << >>
  /\ outcome.value.retrieved_documents /= << >>
  /\ outcome.value.prompt /= parked.prompt
  /\ Len(parked.calls) = 2

-----------------------------------------------------------------------------
(* Order of the stages, checked under Spec.                                 *)

\* The stage that may follow each stage of one call.
NextStage(stage) ==
  CASE stage = "encode" -> {"search", "raised"}
    [] stage = "search" -> {"assemble", "raised"}
    [] stage = "assemble" -> {"generate", "raised"}
    [] stage = "generate" -> {"returned", "raised"}
    [] OTHER -> {"idle"}

\* C25: within one call the stages follow one another in the order embedding,
\* similarity search, context and prompt, generation, none left out or gone
\* through twice: the collaborators are called in the order embedder, store,
\* model, once each at most; the store is queried with the vector this call's
\* embedding produced; the model is called after the search has returned, with
\* the prompt built from this call's retrieval result.
C25_StagesInOrder ==
  /\ [][pc /= "idle" /\ pc' /= pc => pc' \in NextStage(pc)]_vars
  /\ [](entry \in {"chat", "financial"} =>
          /\ Len(calls) <= 3
          /\ \A i \in 1..Len(calls) : calls[i].who = <<"embedder", "store", "llm">>[i]
          /\ \A i \in 1..Len(calls) : i < Len(calls) => calls[i].ok
          /\ Len(calls) >= 1 => calls[1].arg = question
          /\ Len(calls) >= 2 =>
               /\ q_embed.kind \in {"vector", "malformed"}
               /\ q_embed.of = question
               /\ calls[2].arg = q_embed
          /\ Len(calls) >= 3 =>
               /\ results.kind = "results"
               /\ context = Join(RetrievedDocs(Debug, results.documents))
               /\ calls[3].arg = BuildPrompt(context, question)
               /\ calls[3].arg = prompt)

\* C25 witness: the call has gone through the three collaborators in order
\* and returned an answer built on two retrieved chunks.
C25_Witness ==
  /\ pc = "returned"
  /\ entry = "chat"
  /\ Len(calls) = 3
  /\ calls[1].who = "embedder"
  /\ calls[2].who = "store"
  /\ calls[3].who = "llm"
  /\ Len(results.documents[1]) = 2
  /\ question = <<"How is AAPL doing?">>

-----------------------------------------------------------------------------
(* The two forms of the pipeline, checked under SpecForms.                  *)

\* The call with the locals f is over.
Over(f) == f.pc \in {"returned", "raised"}

\* The collaborators answered the calls p and d alike, as far as both asked.
SameResponses(p, d) ==
  /\ p.question = d.question
  /\ \A i \in 1..Len(p.calls) : i <= Len(d.calls) => p.calls[i].ok = d.calls[i].ok
  /\ (Len(p.calls) >= 2 /\ Len(d.calls) >= 2 /\ p.calls[2].ok) => p.results = d.results

\* C26 as claimed: a call of query_rag and a call of query_rag_debug with the
\* same question and the same responses of the collaborators send the same
\* prompt to the model, fail together or return together, and return the
\* model's text, the debug form in its answer field.
C26_PlainEqualsDebug ==
  \A p, d \in {Running, parked} :
    (/\ p.entry = "chat" /\ d.entry = "financial"
     /\ Over(p) /\ Over(d)
     /\ SameResponses(p, d)) =>
       /\ p.pc = "raised" <=> d.pc = "raised"
       /\ (Len(p.calls) = 3 /\ Len(d.calls) = 3) => p.calls[3].arg = d.calls[3].arg
       /\ (p.pc = "returned" /\ d.pc = "returned") =>
            /\ p.outcome.value \in Answers
            /\ d.outcome.value.answer \in Answers
            /\ d.outcome.value.prompt = p.prompt

-----------------------------------------------------------------------------
(* Properties of the BrokerAgent over any files, checked under              *)
(* SpecBrokerAny.                                                           *)

\* The file has two rows in the window and a return: its first close is not 0.
Eligible(f) == Counted(f) /\ FirstClose(f) /= 0

\* The file name without its extension.
Stem(f) == SubSeq(f.name, 1, Len(f.name) - 1)

\* C27: after every file the loop has gone through, either no symbol has been
\* accepted and the four locals are as they were set before the loop, or the
\* four come from one file gone through: its symbol, the closes of its
\* earliest and latest row in the window and the return between them, which
\* no eligible file gone through so far exceeds.  Going through a file that
\* cannot be read leaves the four as they were.
C27_BestTupleConsistent ==
  /\ []((BrokerEntry /\ pc \in {"scan", "returned"}) =>
          \/ /\ best_return = NegInf
             /\ best_symbol = << >>
             /\ best_start = 0
             /\ best_end = 0
             /\ \A j \in 1..scanned : ~Eligible(Listing[j])
          \/ \E i \in 1..scanned :
               LET f == Listing[i]
               IN /\ Eligible(f)
                  /\ best_symbol = Stem(f)
                  /\ best_start = FirstClose(f)
                  /\ best_end = LastClose(f)
                  /\ ~best_return.neg_inf
                  /\ best_return.den > 0
                  /\ best_return.num * best_start
                       = (best_end - best_start) * 100 * best_return.den
                  /\ \A j \in 1..scanned :
                       Eligible(Listing[j]) => ~Outperforms(Listing[j], f))
  /\ [][(pc = "scan" /\ scanned' = scanned + 1 /\ ~Listing[scanned + 1].readable) =>
          UNCHANGED <<best_symbol, best_return, best_start, best_end>>]_vars

\* C27 witness: A was accepted, then the unreadable H was gone through: the
\* four locals are still A's.
C27_Witness ==
  /\ BrokerEntry
  /\ pc = "scan"
  /\ scanned = 2
  /\ Listing[1].name = <<"A", ".csv">>
  /\ ~Listing[2].readable
  /\ best_symbol = <<"A">>
  /\ best_start = 100
  /\ best_end = 110
  /\ best_return = [neg_inf |-> FALSE, num |-> 10, den |-> 1]

-----------------------------------------------------------------------------
(* Double-quoted objects, checked under SpecAgent.                          *)

\* C28 as claimed: when the text between the first opening and the last
\* closing brace of the response is itself a JSON object, the decision is
\* that object.
C28_ValidJsonReturnedAsIs ==
  (AgentDecided /\ HasBracePair(RagResponse)) =>
    LET given == JsonLoads(Between(RagResponse))
    IN (given.ok /\ IsDict(given.val)) => decision = given.val

-----------------------------------------------------------------------------
(* The market of the answer, checked under SpecBroker.                      *)

\* The market identifiers market_dirs maps to a directory.
KnownMarkets ==
  { <<"S&P 500">>, <<"NASDAQ">>, <<"S&P 600">>, <<"Dow Jones">>, <<"NYSE">>,
    <<"Crypto">> }

\* C29 as claimed: every answer names the market the caller passed, and an
\* answer that recommends a symbol does so for a market the table maps to a
\* directory, the symbol being read from that directory.
C29_DataOfTheNamedMarket ==
  (BrokerEntry /\ pc = "returned") =>
    /\ outcome.value.answer.market = market
    /\ outcome.value.answer.kind = "best" =>
         /\ market \in KnownMarkets
         /\ data_dir.subdir = market_dirs(market)

-----------------------------------------------------------------------------
(* Properties of the Binance downloader, checked under SpecDownloader.      *)

\* C30 as claimed: whatever connection errors, timeouts, 451s and other HTTP
\* errors occur (every body received with status 200 being JSON),
\* _make_request never raises, makes at most max_retries HTTP attempts,
\* returns the parsed JSON or None, and current_endpoint is always an index
\* into the endpoint list.
C30_RequestAlwaysReturnsAValue ==
  /\ ~request.no_json => request.pc /= "raised"
  /\ request.gets <= request.max_retries
  /\ request.attempt <= request.max_retries
  /\ current_endpoint \in 0..(Len(endpoints) - 1)
  /\ request.pc = "returned" =>
       /\ request.outcome.kind = "return"
       /\ request.outcome.value \in {"json", "None"}

=============================================================================
